---- MODULE Spec2Model ----
(***************************************************************************)
(* VCF-RDFizer wrapper (vcf_rdfizer.py): the metrics ledger                *)
(* (update_metrics_csv_with_compression) and the full-mode pipeline        *)
(* (run_full_mode, run_compression_methods_for_rdf) as a state machine.    *)
(***************************************************************************)
EXTENDS Integers, Sequences, FiniteSets, TLC

(***************************************************************************)
(* Bounds of the model.                                                    *)
(***************************************************************************)
\* number of ledger updates explored by SpecLedger
MaxUpdates == 2
\* number of input files a snapshot may hold
MaxInputs == 2

(***************************************************************************)
(* Generic helpers.                                                        *)
(***************************************************************************)
Range(s) == {s[i] : i \in DOMAIN s}

EndsWith(s, suf) ==
    /\ Len(s) >= Len(suf)
    /\ SubSeq(s, Len(s) - Len(suf) + 1, Len(s)) = suf

\* Python str(int(n))
RECURSIVE IntStr(_)
IntStr(n) ==
    IF n < 0 THEN "-" \o IntStr(0 - n)
    ELSE IF n < 10 THEN <<"0", "1", "2", "3", "4", "5", "6", "7", "8", "9">>[n + 1]
    ELSE IntStr(n \div 10) \o IntStr(n % 10)

\* the six fractional digits of f"{x:.6f}", x given in microseconds
Pad6(n) ==
    LET s == IntStr(n)
    IN  SubSeq("000000", 1, 6 - Len(s)) \o s

\* Python f"{float(wall_val):.6f}", wall_val given in whole microseconds
FormatWall(w) == IntStr(w \div 1000000) \o "." \o Pad6(w % 1000000)

\* Python sep.join(items)
RECURSIVE Join(_, _)
Join(items, sep) ==
    IF Len(items) = 0 THEN ""
    ELSE IF Len(items) = 1 THEN items[1]
    ELSE items[1] \o sep \o Join(Tail(items), sep)

(***************************************************************************)
(* The metrics ledger: schema and file representation.                     *)
(***************************************************************************)
METRICS_HEADER ==
    << "run_id", "timestamp", "output_name", "output_dir",
       "exit_code_java", "wall_seconds_java", "user_seconds_java",
       "sys_seconds_java", "max_rss_kb_java", "input_mapping_size_bytes",
       "input_vcf_size_bytes", "output_dir_size_bytes", "output_triples",
       "jar", "mapping_file", "output_path", "combined_nq_size_bytes",
       "gzip_size_bytes", "brotli_size_bytes", "hdt_size_bytes",
       "exit_code_gzip", "exit_code_brotli", "exit_code_hdt",
       "wall_seconds_gzip", "user_seconds_gzip", "sys_seconds_gzip",
       "max_rss_kb_gzip", "wall_seconds_brotli", "user_seconds_brotli",
       "sys_seconds_brotli", "max_rss_kb_brotli", "wall_seconds_hdt",
       "user_seconds_hdt", "sys_seconds_hdt", "max_rss_kb_hdt",
       "compression_methods" >>

MethodNames == {"gzip", "brotli", "hdt"}

\* A file on disk: absent, or a header line (<<>> when the file holds no
\* line at all) followed by data lines, each a sequence of cells.
NoFile == [exists |-> FALSE, header |-> <<>>, rows |-> <<>>]
CsvFile(header, rows) == [exists |-> TRUE, header |-> header, rows |-> rows]

\* the last position of `name` in `fieldnames`, searched from position i down
RECURSIVE LastIndex(_, _, _)
LastIndex(fieldnames, name, i) ==
    IF fieldnames[i] = name THEN i ELSE LastIndex(fieldnames, name, i - 1)

\* csv.DictReader: one dict per data line, keyed by the header's names
\* (a name repeated in the header keeps its last cell, as dict(zip()) does).
DictRow(fieldnames, cells) ==
    [n \in Range(fieldnames) |->
        cells[LastIndex(fieldnames, n, Len(fieldnames))]]

\* reader.fieldnames: None for a file without any line
ReaderFieldnames(file) == file.header

ReaderRows(file) ==
    [i \in DOMAIN file.rows |-> DictRow(file.header, file.rows[i])]

\* csv.DictWriter(fieldnames=METRICS_HEADER): header line, then every row's
\* cells in schema order
WriteLedgerMut(rows) ==
    CsvFile(<<>>,
            [i \in DOMAIN rows |->
                [c \in DOMAIN METRICS_HEADER |-> rows[i][METRICS_HEADER[c]]]])
WriteLedger(rows) ==
    CsvFile(METRICS_HEADER,
            [i \in DOMAIN rows |->
                [c \in DOMAIN METRICS_HEADER |-> rows[i][METRICS_HEADER[c]]]])

\* the ledger created when the file is absent: exactly the header line
CreatedLedger(file) ==
    IF file.exists THEN file ELSE CsvFile(METRICS_HEADER, <<>>)

\* fieldnames = reader.fieldnames or METRICS_HEADER
FieldnamesMut(file) == ReaderFieldnames(file)
Fieldnames(file) ==
    IF ReaderFieldnames(file) = <<>> THEN METRICS_HEADER
    ELSE ReaderFieldnames(file)

HeaderMismatch(file) == Fieldnames(file) # METRICS_HEADER

BackupName(run_id) == "metrics.csv" \o ".bak-" \o run_id

\* rows kept for the upsert: reset on a header mismatch
KeptRows(file) ==
    IF HeaderMismatch(file) THEN <<>> ELSE ReaderRows(file)

RowMatches(existing, run_id, output_name) ==
    /\ existing["run_id"] = run_id
    /\ existing["output_name"] = output_name

\* index of the first row with the key, 0 when there is none
FindRowMut(rows, run_id, output_name) == 0
FindRow(rows, run_id, output_name) ==
    IF \E i \in DOMAIN rows : RowMatches(rows[i], run_id, output_name)
    THEN CHOOSE i \in DOMAIN rows :
            /\ RowMatches(rows[i], run_id, output_name)
            /\ \A j \in DOMAIN rows :
                  RowMatches(rows[j], run_id, output_name) => i <= j
    ELSE 0

FreshRow(run_id, timestamp, output_name, output_dir) ==
    [n \in Range(METRICS_HEADER) |->
        CASE n = "run_id" -> run_id
          [] n = "timestamp" -> timestamp
          [] n = "output_name" -> output_name
          [] n = "output_dir" -> output_dir
          [] OTHER -> ""]

SizeKey(method) == method \o "_size_bytes"
ExitKey(method) == "exit_code_" \o method
WallKey(method) == "wall_seconds_" \o method

\* the keys of the defaults dict
DefaultedKeys ==
    UNION {{SizeKey(m), ExitKey(m), WallKey(m), "user_seconds_" \o m,
            "sys_seconds_" \o m, "max_rss_kb_" \o m} : m \in MethodNames}

\* its values: "0" for sizes and exit codes, "null" for the timings
ZeroDefaultKeys == UNION {{SizeKey(m), ExitKey(m)} : m \in MethodNames}
CompressionDefault(n) == IF n \in ZeroDefaultKeys THEN "0" ELSE "null"

\* the method and the measure a result key stands for ("" when it is none)
FieldMethod ==
    [n \in Range(METRICS_HEADER) |->
        IF \E m \in MethodNames : n \in {SizeKey(m), ExitKey(m), WallKey(m)}
        THEN CHOOSE m \in MethodNames : n \in {SizeKey(m), ExitKey(m), WallKey(m)}
        ELSE ""]
FieldMeasure ==
    [n \in Range(METRICS_HEADER) |->
        IF \E m \in MethodNames : n = SizeKey(m) THEN "output_size_bytes"
        ELSE IF \E m \in MethodNames : n = ExitKey(m) THEN "exit_code"
        ELSE IF \E m \in MethodNames : n = WallKey(m) THEN "wall_seconds"
        ELSE ""]

\* result.get(key) or 0
GetOr0(result, key) == IF key \in DOMAIN result THEN result[key] ELSE 0

WallText(result) ==
    IF "wall_seconds" \in DOMAIN result
    THEN FormatWall(result["wall_seconds"])
    ELSE "null"

MethodsText(selected_methods) ==
    IF Len(selected_methods) > 0 THEN Join(selected_methods, "|") ELSE "none"

\* row["combined_nq_size_bytes"], row["compression_methods"]
WithSummary(row, a) ==
    [n \in DOMAIN row |->
        IF n = "combined_nq_size_bytes" THEN IntStr(a.combined_size_bytes)
        ELSE IF n = "compression_methods" THEN MethodsText(a.selected_methods)
        ELSE row[n]]

\* row.update(defaults)
WithDefaultsMut(row) == row
WithDefaults(row) ==
    [n \in DOMAIN row |->
        IF n \in DefaultedKeys THEN CompressionDefault(n) ELSE row[n]]

\* for method, result in method_results.items(): row[size_key],
\* row[exit_key] and row[wall_key] of every method of the result set
WithResultsMut(row, method_results) == row
WithResults(row, method_results) ==
    [n \in DOMAIN row |->
        IF FieldMethod[n] \in DOMAIN method_results
        THEN LET result == method_results[FieldMethod[n]]
             IN  IF FieldMeasure[n] = "wall_seconds" THEN WallText(result)
                 ELSE IntStr(GetOr0(result, FieldMeasure[n]))
        ELSE row[n]]

\* the row after the compression fields are set
ApplyCompression(row, a) ==
    WithResults(WithDefaults(WithSummary(row, a)), a.method_results)

\* rows after the upsert of update a
UpsertRowsMut(rows, a) ==
    <<ApplyCompression(FreshRow(a.run_id, a.timestamp, a.output_name,
                                a.output_dir), a)>>
UpsertRows(rows, a) ==
    LET i == FindRow(rows, a.run_id, a.output_name)
        base == IF i = 0
                THEN FreshRow(a.run_id, a.timestamp, a.output_name, a.output_dir)
                ELSE rows[i]
        new == ApplyCompression(base, a)
    IN  IF i = 0 THEN Append(rows, new) ELSE [rows EXCEPT ![i] = new]

\* the backup copies after update a on `file`
BackupsAfterMut(bk, file, a) == bk
BackupsAfter(bk, file, a) ==
    IF HeaderMismatch(CreatedLedger(file))
    THEN [bk EXCEPT ![BackupName(a.run_id)] = CreatedLedger(file)]
    ELSE bk

\* the ledger file after update a on `file`
LedgerAfter(file, a) ==
    WriteLedger(UpsertRows(KeptRows(CreatedLedger(file)), a))

(***************************************************************************)
(* Compression method selection and per-method results.                    *)
(***************************************************************************)
\* parse_compression_methods on the comma-separated tokens of the flag
\* (already stripped): "" and "none" select nothing, empty tokens are
\* skipped, a repeated method keeps its first occurrence.
RECURSIVE ParseTokens(_, _)
ParseTokens(tokens, methods) ==
    IF Len(tokens) = 0 THEN methods
    ELSE LET method == Head(tokens)
         IN  IF method = "" \/ method \in Range(methods)
             THEN ParseTokens(Tail(tokens), methods)
             ELSE ParseTokens(Tail(tokens), Append(methods, method))

ParseCompressionMethodsMut(tokens) ==
    IF tokens = <<"">> \/ tokens = <<"none">> THEN <<>>
    ELSE SelectSeq(tokens, LAMBDA t : t # "")
ParseCompressionMethods(tokens) ==
    IF tokens = <<"">> \/ tokens = <<"none">> THEN <<>>
    ELSE ParseTokens(tokens, <<>>)

\* the token parse_compression_methods rejects with a ValueError, "" when
\* it accepts them all
RECURSIVE FirstUnsupported(_)
FirstUnsupported(tokens) ==
    IF Len(tokens) = 0 THEN ""
    ELSE IF Head(tokens) # "" /\ Head(tokens) \notin {"gzip", "brotli", "hdt"}
    THEN Head(tokens)
    ELSE FirstUnsupported(Tail(tokens))

UnsupportedMethod(tokens) ==
    IF tokens = <<"">> \/ tokens = <<"none">> THEN ""
    ELSE FirstUnsupported(tokens)

\* values of --compression the model explores, as token lists
CompressionFlags ==
    { <<"none">>, <<"gzip", "brotli", "hdt">>, <<"hdt", "gzip", "hdt">> }

\* one method's result record (method_results[method])
MethodResult(exit_code, wall, path, size) ==
    [exit_code |-> exit_code, wall_seconds |-> wall,
     output_path |-> path, output_size_bytes |-> size]

(***************************************************************************)
(* File names and directories.                                             *)
(***************************************************************************)
\* a directory listing: file name -> size in bytes
NoFiles == <<>>
Put(f, k, v) == [x \in DOMAIN f \cup {k} |-> IF x = k THEN v ELSE f[x]]
Del(f, k) == [x \in DOMAIN f \ {k} |-> f[x]]
DirAbsent == [exists |-> FALSE, files |-> NoFiles]
Dir(files) == [exists |-> TRUE, files |-> files]

\* position of the last "." of a name, 0 when it has none or only leads with it
RECURSIVE LastDot(_, _)
LastDot(name, i) ==
    IF i <= 1 THEN 0
    ELSE IF SubSeq(name, i, i) = "." THEN i
    ELSE LastDot(name, i - 1)

\* pathlib: Path.stem and Path.suffix of a file name
Stem(name) ==
    LET d == LastDot(name, Len(name))
    IN  IF d = 0 THEN name ELSE SubSeq(name, 1, d - 1)
Suffix(name) ==
    LET d == LastDot(name, Len(name))
    IN  IF d = 0 THEN "" ELSE SubSeq(name, d, Len(name))

is_vcf_file(name) == EndsWith(name, ".vcf") \/ EndsWith(name, ".vcf.gz")

vcf_output_prefix(name) ==
    IF EndsWith(name, ".vcf.gz") THEN SubSeq(name, 1, Len(name) - Len(".vcf.gz"))
    ELSE IF EndsWith(name, ".vcf") THEN SubSeq(name, 1, Len(name) - Len(".vcf"))
    ELSE Stem(name)

SlugChars ==
    {SubSeq("ABCDEFGHIJKLMNOPQRSTUVWXYZabcdefghijklmnopqrstuvwxyz0123456789_.-", i, i) :
        i \in 1..65}

\* re.sub(r"[^A-Za-z0-9_.-]+", "_", value): each run of other characters
\* becomes one "_"
RECURSIVE SubUnsafe(_, _)
SubUnsafe(value, inRun) ==
    IF Len(value) = 0 THEN ""
    ELSE LET c == SubSeq(value, 1, 1)
             rest == SubSeq(value, 2, Len(value))
         IN  IF c \in SlugChars THEN c \o SubUnsafe(rest, FALSE)
             ELSE IF inRun THEN SubUnsafe(rest, TRUE)
             ELSE "_" \o SubUnsafe(rest, TRUE)

\* str.strip("_")
RECURSIVE StripUnderscores(_)
StripUnderscores(s) ==
    IF Len(s) = 0 THEN s
    ELSE IF SubSeq(s, 1, 1) = "_" THEN StripUnderscores(SubSeq(s, 2, Len(s)))
    ELSE IF SubSeq(s, Len(s), Len(s)) = "_"
         THEN StripUnderscores(SubSeq(s, 1, Len(s) - 1))
    ELSE s

slugify(value) ==
    LET t == StripUnderscores(SubUnsafe(value, FALSE))
    IN  IF t = "" THEN "vcf" ELSE t

\* the input directory's entries the model knows, in sorted() order
InputNames == <<"notes.txt", "sample_a.vcf", "sample_a.vcf.gz", "sample_b.vcf">>

\* list_vcfs_in_dir: the VCF files of a listing, sorted by name
ListVcfsInDir(present) ==
    SelectSeq(InputNames, LAMBDA n : n \in present /\ is_vcf_file(n))

\* TSV prefixes the model knows, in the order sorted() gives their records files
TsvPrefixes == <<"sample_a", "sample_b", "stale">>

RecordsName(prefix) == prefix \o ".records.tsv"
HeaderName(prefix) == prefix \o ".header_lines.tsv"
MetadataName(prefix) == prefix \o ".file_metadata.tsv"
TripletFiles(prefix) ==
    {RecordsName(prefix), HeaderName(prefix), MetadataName(prefix)}

\* discover_tsv_triplets: the triplets in records-file order, or the first
\* missing sibling
RECURSIVE DiscoverFrom(_, _, _)
DiscoverFrom(prefixes, names, triplets) ==
    IF Len(prefixes) = 0
    THEN IF Len(triplets) > 0
         THEN [ok |-> TRUE, triplets |-> triplets, missing |-> ""]
         ELSE [ok |-> FALSE, triplets |-> <<>>, missing |-> "*.records.tsv"]
    ELSE LET prefix == Head(prefixes)
         IN  IF RecordsName(prefix) \notin names
             THEN DiscoverFrom(Tail(prefixes), names, triplets)
             ELSE IF HeaderName(prefix) \notin names
             THEN [ok |-> FALSE, triplets |-> <<>>, missing |-> HeaderName(prefix)]
             ELSE IF MetadataName(prefix) \notin names
             THEN [ok |-> FALSE, triplets |-> <<>>, missing |-> MetadataName(prefix)]
             ELSE DiscoverFrom(Tail(prefixes), names,
                               Append(triplets,
                                      [prefix |-> prefix,
                                       records |-> RecordsName(prefix),
                                       headers |-> HeaderName(prefix),
                                       metadata |-> MetadataName(prefix)]))

discover_tsv_tripletsMut(names) ==
    LET whole == SelectSeq(TsvPrefixes, LAMBDA q : TripletFiles(q) \subseteq names)
    IN  [ok |-> Len(whole) > 0,
         triplets |-> [i \in DOMAIN whole |->
                          [prefix |-> whole[i],
                           records |-> RecordsName(whole[i]),
                           headers |-> HeaderName(whole[i]),
                           metadata |-> MetadataName(whole[i])]],
         missing |-> IF Len(whole) > 0 THEN "" ELSE "*.records.tsv"]
discover_tsv_triplets(names) == DiscoverFrom(TsvPrefixes, names, <<>>)

\* render_rules_for_triplet: the template with its three placeholder paths
\* replaced, as the three paths the rendered file reads
RenderedRules(triplet) ==
    <<"/data/tsv/" \o triplet.records, "/data/tsv/" \o triplet.headers,
      "/data/tsv/" \o triplet.metadata>>

RulesFileName(safe_prefix) == safe_prefix \o ".rules.ttl"

NtPath(output_name) == output_name \o "/" \o output_name \o ".nt"
NqPath(output_name) == output_name \o "/" \o output_name \o ".nq"

\* the compression source: .nt when present, else .nq when present, else .nt
SourceRdfPathMut(out, output_name) ==
    IF NqPath(output_name) \in DOMAIN out THEN NqPath(output_name)
    ELSE NtPath(output_name)
SourceRdfPath(out, output_name) ==
    IF NtPath(output_name) \in DOMAIN out THEN NtPath(output_name)
    ELSE IF NqPath(output_name) \in DOMAIN out THEN NqPath(output_name)
    ELSE NtPath(output_name)

\* file_size_bytes(path) or 0
SizeOr0(files, path) == IF path \in DOMAIN files THEN files[path] ELSE 0

RECURSIVE LastSlash(_, _)
LastSlash(path, i) ==
    IF i = 0 THEN 0
    ELSE IF SubSeq(path, i, i) = "/" THEN i ELSE LastSlash(path, i - 1)

\* pathlib: Path.name
BaseName(path) == SubSeq(path, LastSlash(path, Len(path)) + 1, Len(path))

\* run_compression_methods_for_rdf: the output of one method, relative to
\* the output root
CompressedNameMut(rdf_path, method) ==
    Stem(BaseName(rdf_path)) \o
        (IF method = "gzip" THEN ".gz"
         ELSE IF method = "brotli" THEN ".br" ELSE ".hdt")
CompressedName(rdf_path, method) ==
    LET input_stem == Stem(BaseName(rdf_path))
        ext == SubSeq(Suffix(BaseName(rdf_path)), 2, Len(Suffix(BaseName(rdf_path))))
        input_ext == IF ext = "" THEN "nt" ELSE ext
    IN  IF method = "gzip" THEN input_stem \o "." \o input_ext \o ".gz"
        ELSE IF method = "brotli" THEN input_stem \o "." \o input_ext \o ".br"
        ELSE input_stem \o ".hdt"

CompressedPath(rdf_path, method) ==
    Stem(BaseName(rdf_path)) \o "/" \o CompressedName(rdf_path, method)

(***************************************************************************)
(* State.                                                                  *)
(***************************************************************************)
VARIABLES
    ledger,     \* <metrics>/metrics.csv
    backups,    \* <metrics>/metrics.csv.bak-<run_id>, by file name
    history,    \* the ledger updates made so far: arguments and prior file
    pc,         \* position of run_full_mode
    rc,         \* its return value, once pc = "done"
    cfg,        \* its arguments and the environment of the run
    idx,        \* index of the input being processed
    loc,        \* its local variables
    fs,         \* the TSV, generated-rules, output and metrics directories
    events,     \* external commands and internal milestones, in order
    initial,    \* the directories as the run found them
    call        \* a single call of one function: arguments, then result

ledgerVars == <<ledger, backups, history>>
runVars == <<pc, rc, cfg, idx, loc, fs, events, initial>>
vars == <<ledger, backups, history, pc, rc, cfg, idx, loc, fs, events, initial,
         call>>

\* no run in progress
NoLoc ==
    [tsv_existed |-> FALSE, selected_methods |-> <<>>, triplet |-> <<>>,
     output_name |-> "", source_rdf_path |-> "", method_results |-> <<>>,
     mi |-> 0, todo |-> <<>>, after_compression |-> "metrics"]
NoCfg ==
    [inputs |-> <<>>, prefixes |-> <<>>, compression |-> <<"none">>,
     keep_tsv |-> FALSE, keep_rdf |-> FALSE, run_id |-> "",
     out_name |-> "rdf", foreign_uid |-> FALSE, rdf_kind |-> "none"]
NoFs == [tsv |-> DirAbsent, rules |-> DirAbsent, out |-> NoFiles,
         metrics |-> NoFiles, input |-> {}]
\* no function call under study
NoCall == [op |-> "", done |-> TRUE]

RunIds == {"20260101T000000", "20260101T000001"}
OutputNames == {"sample_a", "sample_b"}
BackupNames == {BackupName(r) : r \in RunIds}
RunTimestamp(run_id) == "2026-01-01T00:00:00"
OutputDir(output_name) == "out/" \o output_name

\* the row run_conversion.sh leaves for a converted output: the conversion
\* fields filled in, the twenty compression fields empty
SeedCells(run_id, output_name) ==
    [c \in DOMAIN METRICS_HEADER |->
        CASE c = 1 -> run_id
          [] c = 2 -> RunTimestamp(run_id)
          [] c = 3 -> output_name
          [] c = 4 -> OutputDir(output_name)
          [] c = 5 -> "0"
          [] c \in 6..8 -> "0.12"
          [] c \in 9..13 -> "100"
          [] c = 14 -> "fake.jar"
          [] c = 15 -> "rules.ttl"
          [] c = 16 -> OutputDir(output_name)
          [] OTHER -> ""]

\* the canonical header with its first two columns exchanged
ReorderedHeader ==
    [c \in DOMAIN METRICS_HEADER |->
        IF c = 1 THEN METRICS_HEADER[2]
        ELSE IF c = 2 THEN METRICS_HEADER[1]
        ELSE METRICS_HEADER[c]]

SeededLedger ==
    CsvFile(METRICS_HEADER, <<SeedCells("20260101T000000", "sample_a")>>)
LegacyLedger == CsvFile(<<"bad", "header">>, << <<"x", "y">> >>)
ReorderedLedger ==
    CsvFile(ReorderedHeader, <<SeedCells("20260101T000000", "sample_a")>>)
EmptyLedgerFile == CsvFile(<<>>, <<>>)

\* ledger files a run may find
InitialLedgers ==
    {NoFile, EmptyLedgerFile, SeededLedger, LegacyLedger, ReorderedLedger}

UpdateArgs(run_id, output_name, combined, selected, results) ==
    [run_id |-> run_id, timestamp |-> RunTimestamp(run_id),
     output_name |-> output_name, output_dir |-> OutputDir(output_name),
     combined_size_bytes |-> combined, selected_methods |-> selected,
     method_results |-> results]

\* update_metrics_csv_with_compression(**a), as one step
UpdateMetricsCsv(a) ==
    /\ backups' = BackupsAfter(backups, ledger, a)
    /\ ledger' = LedgerAfter(ledger, a)
    /\ history' = Append(history, [args |-> a, pre |-> ledger])

(***************************************************************************)
(* run_full_mode, one action per external command or code stretch.         *)
(***************************************************************************)
ExitCodes == {0, 1, 7}

Event(kind, input, arg, exit) ==
    [kind |-> kind, input |-> input, arg |-> arg, exit |-> exit]

\* a run that returns `code`
Return(code) ==
    /\ pc' = "done"
    /\ rc' = code

TotalInputsMut == Cardinality(Range(cfg.prefixes))
TotalInputs == Len(cfg.inputs)
ExpectedPrefix == cfg.prefixes[idx]
\* container_input of the loop: the idx-th entry of the snapshot
ContainerInputMut ==
    LET listed == ListVcfsInDir(fs.input)
    IN  IF idx <= Len(listed) THEN listed[idx] ELSE cfg.inputs[idx]
ContainerInput == cfg.inputs[idx]

\* generated_rules_dir at the start of a run: removed if present, recreated
RulesDirAtStartMut(rules) == Dir(rules.files)
RulesDirAtStart(rules) == Dir(NoFiles)

\* the TSV directory after the end-of-run cleanup
TsvDirAtEndMut(tsv, keep_tsv, tsv_existed) ==
    IF ~keep_tsv THEN DirAbsent ELSE tsv
TsvDirAtEnd(tsv, keep_tsv, tsv_existed) ==
    IF ~keep_tsv /\ ~tsv_existed THEN DirAbsent ELSE tsv

\* the tests of an external command's exit code
TsvFailedMut(code) == FALSE
TsvFailed(code) == code # 0
RdfFailedMut(code) == FALSE
RdfFailed(code) == code # 0
CompressionFailedMut(exit_code) == FALSE
CompressionFailed(exit_code) == exit_code # 0

StartRun ==
    /\ pc = "start"
    /\ loc' = [loc EXCEPT !.tsv_existed = fs.tsv.exists,
                          !.selected_methods =
                              ParseCompressionMethods(cfg.compression)]
    /\ fs' = [fs EXCEPT !.tsv = Dir(fs.tsv.files),
                        !.rules = RulesDirAtStart(fs.rules)]
    /\ idx' = 1
    /\ pc' = "tsv"
    /\ UNCHANGED <<ledgerVars, rc, cfg, events, initial>>
    /\ UNCHANGED call

\* what vcf_as_tsv.sh may leave for an input: its triplet, whole or in part
TsvOutputs(prefix) ==
    {TripletFiles(prefix), {}, {RecordsName(prefix)},
     {RecordsName(prefix), HeaderName(prefix)}}

AddFiles(files, names, size) ==
    [x \in DOMAIN files \cup names |-> IF x \in names THEN size ELSE files[x]]

TsvStage ==
    /\ pc = "tsv"
    /\ \E code \in ExitCodes :
          /\ events' = Append(events, Event("tsv", idx, ContainerInput, code))
          /\ IF TsvFailed(code)
             THEN /\ Return(1)
                  /\ UNCHANGED fs
             ELSE /\ \E made \in TsvOutputs(vcf_output_prefix(cfg.inputs[idx])) :
                        fs' = [fs EXCEPT !.tsv.files = AddFiles(@, made, 10)]
                  /\ pc' = "discover"
                  /\ UNCHANGED rc
    /\ UNCHANGED <<ledgerVars, cfg, idx, loc, initial>>
    /\ UNCHANGED call

\* triplets_by_prefix[expected_prefix]
TripletForMut(triplets, prefix) == triplets[Len(triplets)]
TripletFor(triplets, prefix) ==
    triplets[CHOOSE i \in DOMAIN triplets : triplets[i].prefix = prefix]

\* the return when the expected prefix is not among the discovered triplets
AbortOnMissingTripletMut == pc' = "tsv" /\ rc' = rc
AbortOnMissingTriplet == Return(1)

\* the external commands among the events: the docker runs of the stages
\* and of the fallback removal
Commands(log) ==
    SelectSeq(log, LAMBDA e : e.kind \in {"tsv", "rdf", "compress", "rm"})

\* discovery and matching on a listing of the TSV directory: the return
\* code (0 when the run goes on) and the triplet matched
DiscoveryResult(names, expected_prefix) ==
    LET found == discover_tsv_triplets(names)
    IN  IF ~found.ok
           \/ expected_prefix \notin {found.triplets[i].prefix :
                                         i \in DOMAIN found.triplets}
        THEN [rc |-> 1, triplet |-> <<>>]
        ELSE [rc |-> 0, triplet |-> TripletFor(found.triplets, expected_prefix)]

\* a second run on the same inputs whose TSV directory holds the files
\* call.stale in addition: it is in step with this run until its discovery
\* comes out differently, and then it has returned what call records
TwinAfterDiscovery ==
    IF call.op # "twin" \/ call.done THEN call
    ELSE LET mine == DiscoveryResult(DOMAIN fs.tsv.files, ExpectedPrefix)
             theirs == DiscoveryResult(DOMAIN fs.tsv.files \cup call.stale,
                                       ExpectedPrefix)
         IN  IF mine = theirs THEN call
             ELSE [call EXCEPT !.done = TRUE,
                               !.rc = theirs.rc,
                               !.commands = Commands(events),
                               !.ledger = ledger]

DiscoverAndRender ==
    /\ pc = "discover"
    /\ LET found == discover_tsv_triplets(DOMAIN fs.tsv.files)
       IN  IF ~found.ok
           THEN /\ Return(1)
                /\ events' = Append(events,
                                Event("discover_error", idx, found.missing, 1))
                /\ UNCHANGED <<fs, loc>>
           ELSE IF ExpectedPrefix \notin {found.triplets[i].prefix :
                                            i \in DOMAIN found.triplets}
           THEN /\ AbortOnMissingTriplet
                /\ events' = Append(events,
                                Event("no_triplet", idx, ExpectedPrefix, 1))
                /\ UNCHANGED <<fs, loc>>
           ELSE LET triplet == TripletFor(found.triplets, ExpectedPrefix)
                    safe_prefix == slugify(triplet.prefix)
                    output_name == IF safe_prefix # "" THEN safe_prefix
                                   ELSE slugify(cfg.out_name)
                IN  /\ fs' = [fs EXCEPT !.rules.files =
                                 Put(@, RulesFileName(safe_prefix),
                                     RenderedRules(triplet))]
                    /\ loc' = [loc EXCEPT !.triplet = triplet,
                                          !.output_name = output_name]
                    /\ events' = events \o
                          <<Event("discover", idx, triplet.prefix, 0),
                            Event("render", idx, RulesFileName(safe_prefix), 0)>>
                    /\ pc' = "rdf"
                    /\ UNCHANGED rc
    /\ UNCHANGED <<ledgerVars, cfg, idx, initial>>
    /\ call' = TwinAfterDiscovery

\* what run_conversion.sh leaves for an output name, by the kind of tool
\* the run meets: .nt, .nq, both or nothing
RdfOutputKinds == {"nt", "nq", "both", "none"}
RdfOutputs(kind, output_name) ==
    IF kind = "nt" THEN {NtPath(output_name)}
    ELSE IF kind = "nq" THEN {NqPath(output_name)}
    ELSE IF kind = "both" THEN {NtPath(output_name), NqPath(output_name)}
    ELSE {}

\* run_conversion.sh records its conversion in the ledger it shares with the
\* wrapper: a row for (run_id, output_name) unless the file has another
\* schema or holds the row already
ConversionRecorded(file, run_id, output_name) ==
    IF HeaderMismatch(CreatedLedger(file)) THEN file
    ELSE IF FindRow(ReaderRows(CreatedLedger(file)), run_id, output_name) # 0
    THEN file
    ELSE CsvFile(METRICS_HEADER,
                 Append(CreatedLedger(file).rows, SeedCells(run_id, output_name)))

\* the sizes in bytes of what the conversion of the i-th input leaves: of
\* its .nt file and of its .nq file
RdfSize(i) == 56 + i
NqSize(i) == 76 + i

RdfStage ==
    /\ pc = "rdf"
    /\ \E code \in ExitCodes :
          /\ events' = Append(events,
                          Event("rdf", idx, RulesFileName(loc.output_name), code))
          /\ IF RdfFailed(code)
             THEN /\ Return(1)
                  /\ UNCHANGED <<fs, loc, ledger>>
             ELSE /\ LET made == RdfOutputs(cfg.rdf_kind, loc.output_name)
                         out == AddFiles(
                                    AddFiles(fs.out, made, RdfSize(idx)),
                                    made \cap {NqPath(loc.output_name)},
                                    NqSize(idx))
                     IN  /\ fs' = [fs EXCEPT !.out = out]
                         /\ loc' = [loc EXCEPT
                               !.source_rdf_path =
                                   SourceRdfPath(out, loc.output_name),
                               !.method_results = <<>>,
                               !.mi = 1]
                  /\ ledger' = ConversionRecorded(ledger, cfg.run_id,
                                                  loc.output_name)
                  /\ pc' = IF Len(loc.selected_methods) > 0
                           THEN "compress" ELSE "metrics"
                  /\ UNCHANGED rc
    /\ UNCHANGED <<backups, history, cfg, idx, initial>>
    /\ UNCHANGED call

\* one iteration of run_compression_methods_for_rdf's loop, and the
\* caller's return when the method failed
CompressStep ==
    /\ pc = "compress"
    /\ LET method == loc.selected_methods[loc.mi]
           output_path == CompressedPath(loc.source_rdf_path, method)
       IN  \E exit_code \in ExitCodes :
             LET out == IF exit_code = 0
                        THEN Put(fs.out, output_path, 20 + loc.mi)
                        ELSE fs.out
                 result == MethodResult(exit_code, 1500000, output_path,
                                        SizeOr0(out, output_path))
             IN  /\ events' = Append(events,
                                 Event("compress", idx, method, exit_code))
                 /\ fs' = [fs EXCEPT !.out = out]
                 /\ loc' = [loc EXCEPT
                       !.method_results = Put(@, method, result),
                       !.mi = @ + 1]
                 /\ IF CompressionFailed(exit_code)
                    THEN Return(1)
                    ELSE /\ pc' = IF loc.mi < Len(loc.selected_methods)
                                  THEN "compress"
                                  ELSE loc.after_compression
                         /\ UNCHANGED rc
    /\ UNCHANGED <<ledgerVars, cfg, idx, initial>>
    /\ UNCHANGED call

\* safe_metrics_name
safe_metrics_name(value) ==
    LET t == StripUnderscores(SubUnsafe(value, FALSE))
    IN  IF t = "" THEN "rdf" ELSE t

\* write_compression_metrics_artifacts: one time log per method result and
\* the JSON document of the output
MetricsArtifacts(run_id, output_name, method_results) ==
    {"compression-time-" \o m \o "-" \o safe_metrics_name(output_name)
        \o "-" \o run_id \o ".txt" : m \in DOMAIN method_results}
    \cup {"compression-metrics-" \o safe_metrics_name(output_name)
            \o "-" \o run_id \o ".json"}

\* the paths of `candidates` that exist in `files`, in order
Existing(candidates, files) ==
    SelectSeq(candidates, LAMBDA q : q \in DOMAIN files)

\* raw RDF files to remove after the metrics are written
RdfTodoMut(out) ==
    Existing(<<NtPath(loc.output_name), NqPath(loc.output_name)>>, out)
RdfTodo(out) ==
    IF ~cfg.keep_rdf /\ Len(loc.selected_methods) > 0
    THEN Existing(<<NtPath(loc.output_name), NqPath(loc.output_name)>>, out)
    ELSE <<>>

\* triplet files to remove once the input is done
TsvTodoMut(tsvFiles) ==
    Existing(<<loc.triplet.records, loc.triplet.headers,
               loc.triplet.metadata>>, tsvFiles)
TsvTodo(tsvFiles) ==
    IF ~cfg.keep_tsv
    THEN Existing(<<loc.triplet.records, loc.triplet.headers,
                    loc.triplet.metadata>>, tsvFiles)
    ELSE <<>>

\* where the loop body goes on: the next removal, the next input or the
\* end-of-run cleanup
AfterInputMut == [pc |-> "tsv", todo |-> <<>>, idx |-> idx]
AfterInput ==
    IF idx < TotalInputs
    THEN [pc |-> "tsv", todo |-> <<>>, idx |-> idx + 1]
    ELSE [pc |-> "cleanup", todo |-> <<>>, idx |-> idx]

AfterRdfRemoval(tsvFiles) ==
    IF Len(TsvTodo(tsvFiles)) > 0
    THEN [pc |-> "rm_tsv", todo |-> TsvTodo(tsvFiles), idx |-> idx]
    ELSE AfterInput

AfterMetrics(out, tsvFiles) ==
    IF Len(RdfTodo(out)) > 0
    THEN [pc |-> "rm_rdf", todo |-> RdfTodo(out), idx |-> idx]
    ELSE AfterRdfRemoval(tsvFiles)

Goto(target, log) ==
    /\ pc' = target.pc
    /\ idx' = target.idx
    /\ loc' = [loc EXCEPT !.todo = target.todo]
    /\ events' = IF target.pc \in {"tsv", "cleanup"}
                 THEN Append(log, Event("input_done", idx, "", 0))
                 ELSE log

\* what may deny the metrics write: nothing, the artifacts directory or the
\* ledger file
MetricsDenials == {"none", "artifacts", "csv"}

\* source_size_before_cleanup: int(file_size_bytes(source_rdf_path) or 0),
\* taken before the metrics are written
SourceSizeBeforeCleanupMut(out, path) == 0
SourceSizeBeforeCleanup(out, path) == SizeOr0(out, path)

WriteMetrics ==
    /\ pc = "metrics"
    /\ LET source_size == SourceSizeBeforeCleanup(fs.out, loc.source_rdf_path)
           artifacts == MetricsArtifacts(cfg.run_id, loc.output_name,
                                         loc.method_results)
           a == UpdateArgs(cfg.run_id, loc.output_name, source_size,
                           loc.selected_methods, loc.method_results)
       IN  \E denied \in MetricsDenials :
             /\ fs' = IF denied = "artifacts" THEN fs
                      ELSE [fs EXCEPT !.metrics = AddFiles(@, artifacts, 1)]
             /\ IF denied = "none"
                THEN /\ UpdateMetricsCsv(a)
                     /\ Goto(AfterMetrics(fs.out, fs.tsv.files),
                             Append(events,
                                    Event("ledger", idx, loc.output_name, 0)))
                     /\ UNCHANGED rc
                ELSE /\ Return(1)
                     /\ events' = Append(events,
                                     Event("metrics_error", idx, denied, 1))
                     /\ UNCHANGED <<ledgerVars, idx, loc>>
    /\ UNCHANGED <<cfg, initial>>
    /\ UNCHANGED call

\* Path.relative_to(mount_root) succeeds: the components of mount_root lead
\* the components of path (a comparison of names, nothing is resolved)
IsUnderMut(path, mount_root) == TRUE
IsUnder(path, mount_root) ==
    /\ Len(mount_root) <= Len(path)
    /\ SubSeq(path, 1, Len(mount_root)) = mount_root

\* f"{mount_point}/{rel.as_posix()}"
ContainerPath(path, mount_root, mount_point) ==
    mount_point \o "/"
        \o Join(SubSeq(path, Len(mount_root) + 1, Len(path)), "/")

\* what a direct Path.unlink() meets
UnlinkOutcomes == {"ok", "denied"}

\* one thing remove_file_with_docker_fallback does to the outside world
RemoveAttempt(kind, arg, exit) == [kind |-> kind, arg |-> arg, exit |-> exit]

\* remove_file_with_docker_fallback: its return value, the attempts it made
\* in order, and whether the file is gone afterwards
remove_file_with_docker_fallback(path, mount_root, mount_point, exists, unlink, rm_code) ==
    LET direct == RemoveAttempt("unlink", Join(path, "/"),
                                IF unlink = "ok" THEN 0 ELSE 1)
        fallback == RemoveAttempt("rm",
                                  ContainerPath(path, mount_root, mount_point),
                                  rm_code)
    IN  IF ~exists
        THEN [ok |-> TRUE, steps |-> <<>>, gone |-> TRUE]
        ELSE IF unlink = "ok"
        THEN [ok |-> TRUE, steps |-> <<direct>>, gone |-> TRUE]
        ELSE IF ~IsUnder(path, mount_root)
        THEN [ok |-> FALSE, steps |-> <<direct>>, gone |-> FALSE]
        ELSE IF rm_code # 0
        THEN [ok |-> FALSE, steps |-> <<direct, fallback>>, gone |-> FALSE]
        ELSE [ok |-> TRUE, steps |-> <<direct, fallback>>, gone |-> TRUE]

\* the host directories a run mounts, as path components
OutRoot == <<"work", "out">>
TsvRoot == <<"work", "tsv">>

\* the caller's `return 1` when a removal reports failure
AbortOnRemovalFailureMut == Return(0)
AbortOnRemovalFailure == Return(1)

\* remove_file_with_docker_fallback for the next pending file of the loop
\* body, and the caller's return when it reports failure
RemoveStep ==
    /\ pc \in {"rm_rdf", "rm_tsv"}
    /\ LET name == Head(loc.todo)
           mount_root == IF pc = "rm_rdf" THEN OutRoot ELSE TsvRoot
           mount_point == IF pc = "rm_rdf" THEN "/data/out" ELSE "/data/tsv"
           files == IF pc = "rm_rdf" THEN fs.out ELSE fs.tsv.files
           removed == IF pc = "rm_rdf"
                      THEN [fs EXCEPT !.out = Del(@, name)]
                      ELSE [fs EXCEPT !.tsv.files = Del(@, name)]
           target == IF Len(loc.todo) > 1
                     THEN [pc |-> pc, todo |-> Tail(loc.todo), idx |-> idx]
                     ELSE IF pc = "rm_rdf"
                     THEN AfterRdfRemoval(fs.tsv.files)
                     ELSE AfterInput
       IN  \E rm_code \in ExitCodes :
             LET r == remove_file_with_docker_fallback(
                          Append(mount_root, name), mount_root, mount_point,
                          name \in DOMAIN files,
                          IF cfg.foreign_uid THEN "denied" ELSE "ok", rm_code)
                 log == events \o [k \in DOMAIN r.steps |->
                                     Event(r.steps[k].kind, idx, name,
                                           r.steps[k].exit)]
             IN  IF r.ok
                 THEN /\ fs' = IF r.gone THEN removed ELSE fs
                      /\ Goto(target, log)
                      /\ UNCHANGED rc
                 ELSE /\ AbortOnRemovalFailure
                      /\ events' = log
                      /\ UNCHANGED <<fs, idx, loc>>
    /\ UNCHANGED <<ledgerVars, cfg, initial>>
    /\ UNCHANGED call

FinalCleanup ==
    /\ pc = "cleanup"
    /\ fs' = [fs EXCEPT !.tsv = TsvDirAtEnd(fs.tsv, cfg.keep_tsv, loc.tsv_existed)]
    /\ Return(0)
    /\ events' = Append(events, Event("cleanup", idx, "", 0))
    /\ UNCHANGED <<ledgerVars, cfg, idx, loc, initial>>
    /\ UNCHANGED call

(***************************************************************************)
(* Spec: one full-mode run.                                                *)
(***************************************************************************)
VcfNames == {n \in Range(InputNames) : is_vcf_file(n)}

\* input directories a run may be started on: some VCF files and a file
\* that is none
InputDirs ==
    {present \cup {"notes.txt"} :
        present \in {q \in SUBSET VcfNames :
                        Cardinality(q) >= 1 /\ Cardinality(q) <= MaxInputs}}

\* resolve_input_snapshot on a directory: the sorted VCF files
Snapshots == {ListVcfsInDir(present) : present \in InputDirs}

Triplet(prefix) ==
    [prefix |-> prefix, records |-> RecordsName(prefix),
     headers |-> HeaderName(prefix), metadata |-> MetadataName(prefix)]

\* directories a run may find
InitialTsvDirs ==
    {DirAbsent,
     Dir(AddFiles(NoFiles, TripletFiles("stale") \cup {"keep.me"}, 10))}
InitialRulesDirs ==
    {DirAbsent,
     Dir(Put(Put(NoFiles, "sample_a.rules.ttl", RenderedRules(Triplet("stale"))),
             "stale.rules.ttl", RenderedRules(Triplet("stale"))))}

Init ==
    /\ ledger \in {NoFile, LegacyLedger}
    /\ backups = [n \in BackupNames |-> NoFile]
    /\ history = <<>>
    /\ pc = "start"
    /\ rc = 0
    /\ \E present \in InputDirs, compression \in CompressionFlags,
          keep_tsv \in BOOLEAN, keep_rdf \in BOOLEAN,
          foreign_uid \in BOOLEAN, rdf_kind \in RdfOutputKinds,
          tsv \in InitialTsvDirs, rules \in InitialRulesDirs :
          LET snapshot == ListVcfsInDir(present)
          IN  /\ cfg = [inputs |-> snapshot,
                        prefixes |-> [i \in DOMAIN snapshot |->
                                         vcf_output_prefix(snapshot[i])],
                        compression |-> compression,
                        keep_tsv |-> keep_tsv, keep_rdf |-> keep_rdf,
                        run_id |-> "20260101T000000", out_name |-> "rdf",
                        foreign_uid |-> foreign_uid, rdf_kind |-> rdf_kind]
              /\ fs = [tsv |-> tsv, rules |-> rules, out |-> NoFiles,
                       metrics |-> NoFiles, input |-> present]
    /\ idx = 0
    /\ loc = NoLoc
    /\ events = <<>>
    /\ initial = fs
    /\ call = NoCall

Next ==
    \/ StartRun
    \/ TsvStage
    \/ DiscoverAndRender
    \/ RdfStage
    \/ CompressStep
    \/ WriteMetrics
    \/ RemoveStep
    \/ FinalCleanup

Spec == Init /\ [][Next]_vars

(***************************************************************************)
(* SpecSnapshot: a full-mode run while the input directory changes.        *)
(***************************************************************************)
\* what the input directory may hold after somebody else changed it
ChangedInputDirs == {q \cup {"notes.txt"} : q \in SUBSET VcfNames}

\* files are added to, removed from or renamed in the input directory
InputDirChanges ==
    /\ pc # "done"
    /\ fs.input = initial.input
    /\ \E listing \in ChangedInputDirs \ {fs.input} :
          fs' = [fs EXCEPT !.input = listing]
    /\ events' = Append(events, Event("input_dir_changed", idx, "", 0))
    /\ UNCHANGED <<ledgerVars, pc, rc, cfg, idx, loc, initial, call>>

InitSnapshot ==
    /\ Init
    /\ ledger = NoFile
    /\ cfg.compression = <<"gzip", "brotli", "hdt">>
    /\ ~cfg.keep_tsv /\ ~cfg.keep_rdf
    /\ cfg.rdf_kind = "nt"
    /\ ~fs.tsv.exists /\ ~fs.rules.exists

NextSnapshot ==
    \/ StartRun
    \/ TsvStage
    \/ DiscoverAndRender
    \/ RdfStage
    \/ CompressStep
    \/ WriteMetrics
    \/ RemoveStep
    \/ FinalCleanup
    \/ InputDirChanges

SpecSnapshot == InitSnapshot /\ [][NextSnapshot]_vars

(***************************************************************************)
(* SpecTerm: full-mode runs in which every external invocation returns and *)
(* the wrapper, a sequential program, always takes its next step.          *)
(***************************************************************************)
InitTerm ==
    /\ Init
    /\ ledger = NoFile
    /\ ~fs.tsv.exists /\ ~fs.rules.exists
    /\ ~cfg.keep_tsv /\ ~cfg.keep_rdf
    /\ cfg.rdf_kind = "both"
    /\ cfg.foreign_uid

NextTerm ==
    \/ StartRun
    \/ TsvStage
    \/ DiscoverAndRender
    \/ RdfStage
    \/ CompressStep
    \/ WriteMetrics
    \/ RemoveStep
    \/ FinalCleanup

SpecTerm == InitTerm /\ [][NextTerm]_vars /\ WF_vars(NextTerm)

(***************************************************************************)
(* SpecStale: a full-mode run and its twin, a run on the same inputs whose *)
(* TSV directory holds stale files of another prefix in addition.          *)
(***************************************************************************)
\* the stale files of the twin: a whole triplet, a records file alone or
\* with its header file only, a header file alone, a TSV file of no triplet
StaleSets ==
    {TripletFiles("stale"),
     {RecordsName("stale")},
     {RecordsName("stale"), HeaderName("stale")},
     {HeaderName("stale")},
     {"notes.tsv"}}

InitStale ==
    /\ ledger = NoFile
    /\ backups = [n \in BackupNames |-> NoFile]
    /\ history = <<>>
    /\ pc = "start"
    /\ rc = 0
    /\ \E present \in InputDirs, foreign_uid \in BOOLEAN,
          tsv \in {Dir(NoFiles), Dir(Put(NoFiles, "keep.me", 10))} :
          LET snapshot == ListVcfsInDir(present)
          IN  /\ cfg = [inputs |-> snapshot,
                        prefixes |-> [i \in DOMAIN snapshot |->
                                         vcf_output_prefix(snapshot[i])],
                        compression |-> <<"gzip", "brotli", "hdt">>,
                        keep_tsv |-> FALSE, keep_rdf |-> FALSE,
                        run_id |-> "20260101T000000", out_name |-> "rdf",
                        foreign_uid |-> foreign_uid, rdf_kind |-> "nt"]
              /\ fs = [tsv |-> tsv, rules |-> DirAbsent, out |-> NoFiles,
                       metrics |-> NoFiles, input |-> present]
    /\ idx = 0
    /\ loc = NoLoc
    /\ events = <<>>
    /\ initial = fs
    /\ \E stale \in StaleSets :
          call = [op |-> "twin", done |-> FALSE, stale |-> stale,
                  rc |-> 0, commands |-> <<>>, ledger |-> NoFile]

NextStale ==
    \/ StartRun
    \/ TsvStage
    \/ DiscoverAndRender
    \/ RdfStage
    \/ CompressStep
    \/ WriteMetrics
    \/ RemoveStep
    \/ FinalCleanup

SpecStale == InitStale /\ [][NextStale]_vars

(***************************************************************************)
(* SpecLedger: ledger updates with arbitrary arguments.                    *)
(***************************************************************************)
\* result sets handed to an update: the first p selected methods, the p-th
\* failed (a bare exit code, no size or wall time recorded) or not
ResultSet(selected, p, failed) ==
    [m \in {selected[i] : i \in 1..p} |->
        IF failed /\ m = selected[p]
        THEN [exit_code |-> 2]
        ELSE MethodResult(0, 1500000, OutputDir(m), 20 + p)]

\* every selected method succeeded, or the second of three failed
ResultSets(selected) ==
    {ResultSet(selected, Len(selected), FALSE)} \cup
    {ResultSet(selected, 2, TRUE) : x \in {y \in {1} : Len(selected) >= 3}}

\* the (run_id, output_name) keys updated
UpdateKeys ==
    {<<r, o>> : r \in RunIds, o \in OutputNames} \ {<<"20260101T000001", "sample_b">>}

CombinedSizes == {0, 57}

InitLedger ==
    /\ ledger \in InitialLedgers
    /\ backups = [n \in BackupNames |-> NoFile]
    /\ history = <<>>
    /\ pc = "idle"
    /\ rc = 0
    /\ cfg = NoCfg
    /\ idx = 0
    /\ loc = NoLoc
    /\ fs = NoFs
    /\ events = <<>>
    /\ initial = NoFs
    /\ call = NoCall

LedgerUpdate ==
    /\ Len(history) < MaxUpdates
    /\ \E key \in UpdateKeys, flag \in CompressionFlags,
          combined \in CombinedSizes :
          \E results \in ResultSets(ParseCompressionMethods(flag)) :
             UpdateMetricsCsv(UpdateArgs(key[1], key[2], combined,
                                         ParseCompressionMethods(flag), results))
    /\ UNCHANGED runVars
    /\ UNCHANGED call

NextLedger == LedgerUpdate

SpecLedger == InitLedger /\ [][NextLedger]_vars

(***************************************************************************)
(* SpecRemove: single calls of remove_file_with_docker_fallback.           *)
(***************************************************************************)
\* paths a caller may hand over, as components: files of the mounted
\* directories, a sibling directory whose name begins like a mount root, and
\* files elsewhere
RemovePaths ==
    {<<"work", "out", "sample_a", "sample_a.nt">>,
     <<"work", "out", "sample_a", "sample_a.nq">>,
     <<"work", "tsv", "sample_a.records.tsv">>,
     <<"work", "out2", "sample_a.nt">>,
     <<"work", "sample_a.nt">>,
     <<"etc", "hosts">>}
MountRoots == {OutRoot, TsvRoot}
MountPointOf(mount_root) ==
    IF mount_root = OutRoot THEN "/data/out" ELSE "/data/tsv"

\* the state of a spec that runs no full-mode run and no ledger update
Idle ==
    /\ ledger = NoFile
    /\ backups = [n \in BackupNames |-> NoFile]
    /\ history = <<>>
    /\ pc = "idle"
    /\ rc = 0
    /\ cfg = NoCfg
    /\ idx = 0
    /\ loc = NoLoc
    /\ fs = NoFs
    /\ events = <<>>
    /\ initial = NoFs

InitRemove ==
    /\ Idle
    /\ \E path \in RemovePaths, mount_root \in MountRoots, exists \in BOOLEAN,
          unlink \in UnlinkOutcomes, rm_code \in ExitCodes :
          call = [op |-> "remove_file_with_docker_fallback", done |-> FALSE,
                  path |-> path, mount_root |-> mount_root, exists |-> exists,
                  unlink |-> unlink, rm_code |-> rm_code]

RemoveCall ==
    /\ call.op = "remove_file_with_docker_fallback"
    /\ ~call.done
    /\ call' = [op |-> call.op, done |-> TRUE,
                path |-> call.path, mount_root |-> call.mount_root,
                exists |-> call.exists, unlink |-> call.unlink,
                rm_code |-> call.rm_code,
                result |-> remove_file_with_docker_fallback(
                               call.path, call.mount_root,
                               MountPointOf(call.mount_root), call.exists,
                               call.unlink, call.rm_code)]
    /\ UNCHANGED <<ledgerVars, runVars>>

NextRemove == RemoveCall

SpecRemove == InitRemove /\ [][NextRemove]_vars

(***************************************************************************)
(* SpecDiscover: single calls of discover_tsv_triplets.                    *)
(***************************************************************************)
\* names a TSV directory may hold: the files of the known triplets and a
\* TSV file that belongs to none
DiscoverNames ==
    UNION {TripletFiles(TsvPrefixes[i]) : i \in DOMAIN TsvPrefixes}
        \cup {"notes.tsv"}

InitDiscover ==
    /\ Idle
    /\ \E names \in SUBSET DiscoverNames :
          call = [op |-> "discover_tsv_triplets", done |-> FALSE,
                  names |-> names]

DiscoverCall ==
    /\ call.op = "discover_tsv_triplets"
    /\ ~call.done
    /\ call' = [op |-> call.op, done |-> TRUE, names |-> call.names,
                result |-> discover_tsv_triplets(call.names)]
    /\ UNCHANGED <<ledgerVars, runVars>>

NextDiscover == DiscoverCall

SpecDiscover == InitDiscover /\ [][NextDiscover]_vars

(***************************************************************************)
(* SpecRace: two invocations update the same ledger file, each in two      *)
(* steps: read all rows, later rewrite the whole file.                     *)
(***************************************************************************)
Writers == {1, 2}

\* the updates the two invocations make, under different keys
RaceKeys ==
    {<<<<"20260101T000000", "sample_a">>, <<"20260101T000001", "sample_a">>>>,
     <<<<"20260101T000000", "sample_a">>, <<"20260101T000000", "sample_b">>>>}

RaceArgs(key, flag) ==
    UpdateArgs(key[1], key[2], 57, ParseCompressionMethods(flag),
               ResultSet(ParseCompressionMethods(flag),
                         Len(ParseCompressionMethods(flag)), FALSE))

InitRace ==
    /\ ledger \in InitialLedgers
    /\ backups = [n \in BackupNames |-> NoFile]
    /\ history = <<>>
    /\ pc = "idle"
    /\ rc = 0
    /\ cfg = NoCfg
    /\ idx = 0
    /\ loc = NoLoc
    /\ fs = NoFs
    /\ events = <<>>
    /\ initial = NoFs
    /\ \E keys \in RaceKeys, f1 \in CompressionFlags, f2 \in CompressionFlags :
          call = [op |-> "race", done |-> FALSE,
                  at |-> [w \in Writers |-> "read"],
                  args |-> <<RaceArgs(keys[1], f1), RaceArgs(keys[2], f2)>>,
                  rows |-> [w \in Writers |-> <<>>],
                  wrote |-> [w \in Writers |-> NoFile],
                  log |-> <<>>]

\* lines 445-460 of one invocation: create the file if absent, read header
\* and rows, back the file up on a header mismatch
RaceRead(w) ==
    /\ call.op = "race"
    /\ call.at[w] = "read"
    /\ ledger' = CreatedLedger(ledger)
    /\ backups' = BackupsAfter(backups, ledger, call.args[w])
    /\ call' = [call EXCEPT !.at[w] = "write",
                            !.rows[w] = KeptRows(CreatedLedger(ledger)),
                            !.log = Append(@, <<w, "read">>)]
    /\ UNCHANGED <<history, runVars>>

\* the rows an invocation writes back: the list it read
RowsAtWriteMut(w) == KeptRows(CreatedLedger(ledger))
RowsAtWrite(w) == call.rows[w]

\* lines 462-513 of one invocation: find or append the row in the list read
\* earlier, set its fields, rewrite the whole file
RaceWrite(w) ==
    /\ call.op = "race"
    /\ call.at[w] = "write"
    /\ ledger' = WriteLedger(UpsertRows(RowsAtWrite(w), call.args[w]))
    /\ history' = Append(history, [args |-> call.args[w], pre |-> ledger])
    /\ call' = [call EXCEPT !.at[w] = "done",
                            !.wrote[w] = ledger',
                            !.log = Append(@, <<w, "write">>),
                            !.done = \A o \in Writers \ {w} : call.at[o] = "done"]
    /\ UNCHANGED <<backups, runVars>>

NextRace == \E w \in Writers : RaceRead(w) \/ RaceWrite(w)

SpecRace == InitRace /\ [][NextRace]_vars

(***************************************************************************)
(* SpecMain: main, from the command line to the exit code, in the three    *)
(* modes.                                                                  *)
(***************************************************************************)
MainModes == {"full", "compress", "decompress"}

\* a path given on the command line and what it names: kind "unset" (flag
\* not given), "absent", "file" or "dir"
PathArg(kind, name, listing) ==
    [kind |-> kind, name |-> name, listing |-> listing]

\* detect_compressed_format: "" stands for its ValueError
detect_compressed_formatMut(name) == "gzip"
detect_compressed_format(name) ==
    IF EndsWith(name, ".nq.gz") \/ EndsWith(name, ".nt.gz")
          \/ Suffix(name) = ".gz"
    THEN "gzip"
    ELSE IF EndsWith(name, ".nq.br") \/ EndsWith(name, ".nt.br")
          \/ Suffix(name) = ".br"
    THEN "brotli"
    ELSE IF Suffix(name) = ".hdt" THEN "hdt"
    ELSE ""

\* default_decompressed_name
default_decompressed_nameMut(name, fmt) == Stem(name) \o ".nt"
default_decompressed_name(name, fmt) ==
    IF fmt = "gzip" /\ (EndsWith(name, ".nq.gz") \/ EndsWith(name, ".nt.gz"))
    THEN SubSeq(name, 1, Len(name) - 3)
    ELSE IF fmt = "brotli"
            /\ (EndsWith(name, ".nq.br") \/ EndsWith(name, ".nt.br"))
    THEN SubSeq(name, 1, Len(name) - 3)
    ELSE Stem(name) \o ".nt"

\* a command line every check accepts, for a mode
BaseArgs(mode) ==
    [mode |-> mode, build |-> FALSE, no_build |-> FALSE,
     input |-> PathArg("dir", "vcf_files", {"notes.txt", "sample_a.vcf"}),
     rules |-> "file", out |-> "absent", tsv |-> "absent",
     metrics |-> "absent",
     compression |-> <<"gzip", "brotli", "hdt">>,
     nq |-> PathArg("file", "sample_a.nt", {}),
     compressed_input |-> PathArg("file", "sample_a.nt.gz", {}),
     decompress_out |-> "default",
     image_has_tag |-> FALSE, image_version_set |-> FALSE,
     keep_tsv |-> FALSE, keep_rdf |-> FALSE]

\* the command lines explored: the base one and its variations
MainArgs ==
    UNION {LET b == BaseArgs(mode)
           IN  {b,
                [b EXCEPT !.build = TRUE],
                [b EXCEPT !.no_build = TRUE],
                [b EXCEPT !.build = TRUE, !.no_build = TRUE],
                [b EXCEPT !.input = PathArg("unset", "", {})],
                [b EXCEPT !.input = PathArg("absent", "vcf_files", {})],
                [b EXCEPT !.input = PathArg("file", "sample_a.vcf.gz", {})],
                [b EXCEPT !.input = PathArg("file", "notes.txt", {})],
                [b EXCEPT !.input = PathArg("dir", "vcf_files", {"notes.txt"})],
                [b EXCEPT !.rules = "absent"],
                [b EXCEPT !.out = "file"],
                [b EXCEPT !.tsv = "file"],
                [b EXCEPT !.tsv = "dir"],
                [b EXCEPT !.metrics = "file"],
                [b EXCEPT !.compression = <<"none">>],
                [b EXCEPT !.compression = <<"gzip", "zip">>],
                [b EXCEPT !.nq = PathArg("unset", "", {})],
                [b EXCEPT !.nq = PathArg("absent", "sample_a.nt", {})],
                [b EXCEPT !.nq = PathArg("file", "sample_a.ttl", {})],
                [b EXCEPT !.nq = PathArg("file", "sample_a.nq", {})],
                [b EXCEPT !.compressed_input = PathArg("unset", "", {})],
                [b EXCEPT !.compressed_input = PathArg("absent", "sample_a.nt.gz", {})],
                [b EXCEPT !.compressed_input = PathArg("file", "sample_a.zip", {})],
                [b EXCEPT !.compressed_input = PathArg("file", "sample_a.nt.GZ", {})],
                [b EXCEPT !.compressed_input = PathArg("file", "sample_a_gz", {})],
                [b EXCEPT !.compressed_input = PathArg("file", "sample_a.hdt", {})],
                [b EXCEPT !.compressed_input = PathArg("file", "sample_a.nq.br", {})],
                [b EXCEPT !.decompress_out = "dir"],
                [b EXCEPT !.decompress_out = "parent_is_file"],
                [b EXCEPT !.image_has_tag = TRUE],
                [b EXCEPT !.image_version_set = TRUE],
                [b EXCEPT !.image_has_tag = TRUE, !.image_version_set = TRUE],
                [b EXCEPT !.keep_tsv = TRUE, !.keep_rdf = TRUE]}
           : mode \in MainModes}

\* the ValueError of main's validation block, "" when the block passes
ValidationError(a) ==
    IF a.mode = "full"
    THEN IF a.input.kind = "unset" THEN "--input is required"
         ELSE IF a.input.kind = "absent" THEN "input path not found"
         ELSE IF a.input.kind = "file" /\ ~is_vcf_file(a.input.name)
         THEN "input file must end with .vcf or .vcf.gz"
         ELSE IF a.input.kind = "dir"
                 /\ ListVcfsInDir(a.input.listing) = <<>>
         THEN "no VCF files in the input directory"
         ELSE IF a.rules # "file" THEN "rules file not found"
         ELSE IF "file" \in {a.out, a.tsv, a.metrics}
         THEN "expected a directory path but found a file"
         ELSE IF UnsupportedMethod(a.compression) # ""
         THEN "unsupported compression method"
         ELSE ""
    ELSE IF a.mode = "compress"
    THEN IF a.nq.kind = "unset" THEN "--nq is required"
         ELSE IF a.nq.kind # "file" THEN "RDF input file not found"
         ELSE IF Suffix(a.nq.name) \notin {".nq", ".nt"}
         THEN "compression input must be a .nq or .nt file"
         ELSE IF UnsupportedMethod(a.compression) # ""
         THEN "unsupported compression method"
         ELSE IF "file" \in {a.out, a.metrics}
         THEN "expected a directory path but found a file"
         ELSE ""
    ELSE IF a.compressed_input.kind = "unset"
         THEN "--compressed-input is required"
         ELSE IF a.compressed_input.kind # "file"
         THEN "compressed input file not found"
         ELSE IF detect_compressed_format(a.compressed_input.name) = ""
         THEN "compressed input must end with .gz, .br, or .hdt"
         ELSE IF "file" \in {a.out, a.metrics}
         THEN "expected a directory path but found a file"
         ELSE IF a.decompress_out = "dir"
         THEN "decompression output path is a directory"
         ELSE IF a.decompress_out = "parent_is_file"
         THEN "decompression output parent is not a directory"
         ELSE ""

\* resolve_input_snapshot: the container inputs of a file or of a directory
SnapshotOf(input) ==
    IF input.kind = "file" THEN <<input.name>>
    ELSE ListVcfsInDir(input.listing)

\* <metrics>/.wrapper_logs/wrapper-<run_id>.log
WrapperLog(run_id) == ".wrapper_logs/wrapper-" \o run_id \o ".log"

\* the directories as a command line finds them
FsOf(a) ==
    [tsv |-> IF a.tsv = "dir" THEN Dir(NoFiles) ELSE DirAbsent,
     rules |-> DirAbsent, out |-> NoFiles, metrics |-> NoFiles,
     input |-> a.input.listing]

InitMain ==
    /\ ledger = NoFile
    /\ backups = [n \in BackupNames |-> NoFile]
    /\ history = <<>>
    /\ pc = "main"
    /\ rc = 0
    /\ cfg = NoCfg
    /\ idx = 0
    /\ loc = NoLoc
    /\ events = <<>>
    /\ \E a \in MainArgs :
          /\ call = [op |-> "main", done |-> FALSE, args |-> a]
          /\ fs = FsOf(a)
          /\ initial = FsOf(a)

\* main up to the end of its validation block: --build with --no-build,
\* then the checks of the mode
MainValidate ==
    /\ pc = "main"
    /\ LET a == call.args
       IN  IF (a.build /\ a.no_build) \/ ValidationError(a) # ""
           THEN /\ Return(2)
                /\ UNCHANGED cfg
           ELSE /\ pc' = "logger"
                /\ cfg' = IF a.mode = "full"
                          THEN [NoCfg EXCEPT
                                  !.inputs = SnapshotOf(a.input),
                                  !.prefixes =
                                      [i \in DOMAIN SnapshotOf(a.input) |->
                                          vcf_output_prefix(SnapshotOf(a.input)[i])],
                                  !.compression = a.compression,
                                  !.keep_tsv = a.keep_tsv,
                                  !.keep_rdf = a.keep_rdf,
                                  !.rdf_kind = "nt"]
                          ELSE cfg
                /\ UNCHANGED rc
    /\ UNCHANGED <<ledgerVars, idx, loc, fs, events, initial, call>>

\* run_id, and CommandLogger(wrapper_log_path): the log directory and file
MainOpenLog ==
    /\ pc = "logger"
    /\ cfg' = [cfg EXCEPT !.run_id = "20260101T000000"]
    /\ fs' = [fs EXCEPT !.metrics = Put(@, WrapperLog("20260101T000000"), 0)]
    /\ pc' = "docker"
    /\ UNCHANGED <<ledgerVars, rc, idx, loc, events, initial, call>>

\* check_docker
MainCheckDocker ==
    /\ pc = "docker"
    /\ \E on_path \in BOOLEAN, code \in ExitCodes :
          IF ~on_path
          THEN /\ Return(2)
               /\ UNCHANGED events
          ELSE /\ events' = Append(events, Event("docker_version", 0, "", code))
               /\ IF code # 0
                  THEN Return(2)
                  ELSE pc' = "image" /\ UNCHANGED rc
    /\ UNCHANGED <<ledgerVars, cfg, idx, loc, fs, initial, call>>

\* where main goes once the image is there
ModeEntry(mode) ==
    IF mode = "full" THEN "start"
    ELSE IF mode = "compress" THEN "cmode"
    ELSE "dmode"

\* resolve_image_ref and ensure_image_available
MainImage ==
    /\ pc = "image"
    /\ LET a == call.args
           version_requested == ~a.image_has_tag /\ a.image_version_set
           go == pc' = ModeEntry(a.mode) /\ UNCHANGED rc
       IN  IF a.image_has_tag /\ a.image_version_set
           THEN Return(2) /\ UNCHANGED events
           ELSE \E inspect \in ExitCodes, code \in ExitCodes :
                  IF a.build
                  THEN /\ events' = Append(events,
                                       Event("docker_build", 0, "", code))
                       /\ IF code # 0 THEN Return(1) ELSE go
                  ELSE IF inspect = 0
                  THEN /\ events' = Append(events,
                                       Event("image_inspect", 0, "", inspect))
                       /\ go
                  ELSE IF version_requested
                  THEN /\ events' = events \o
                             <<Event("image_inspect", 0, "", inspect),
                               Event("docker_pull", 0, "", code)>>
                       /\ IF code # 0 THEN Return(2) ELSE go
                  ELSE IF a.no_build
                  THEN /\ events' = Append(events,
                                       Event("image_inspect", 0, "", inspect))
                       /\ Return(2)
                  ELSE /\ events' = events \o
                             <<Event("image_inspect", 0, "", inspect),
                               Event("docker_build", 0, "", code)>>
                       /\ IF code # 0 THEN Return(1) ELSE go
    /\ UNCHANGED <<ledgerVars, cfg, idx, loc, fs, initial, call>>

\* run_compress_mode up to its loop: nothing to do for `none`
CompressMode ==
    /\ pc = "cmode"
    /\ LET methods == ParseCompressionMethods(call.args.compression)
       IN  IF methods = <<>>
           THEN Return(0) /\ UNCHANGED <<loc, idx>>
           ELSE /\ loc' = [loc EXCEPT !.selected_methods = methods,
                                      !.source_rdf_path = call.args.nq.name,
                                      !.method_results = <<>>,
                                      !.mi = 1,
                                      !.after_compression = "cmode_end"]
                /\ idx' = 1
                /\ pc' = "compress"
                /\ UNCHANGED rc
    /\ UNCHANGED <<ledgerVars, cfg, fs, events, initial, call>>

\* run_compress_mode after its loop: the summary, return 0
CompressModeEnd ==
    /\ pc = "cmode_end"
    /\ Return(0)
    /\ UNCHANGED <<ledgerVars, cfg, idx, loc, fs, events, initial, call>>

\* the return of run_decompress_mode when the tool failed
DecompressFailureCodeMut(code) == code
DecompressFailureCode(code) == 1

\* run_decompress_mode
DecompressMode ==
    /\ pc = "dmode"
    /\ LET name == call.args.compressed_input.name
           fmt == detect_compressed_format(name)
           default_name == default_decompressed_name(name, fmt)
           decompressed_out == IF call.args.decompress_out = "default"
                               THEN Stem(default_name) \o "/" \o default_name
                               ELSE call.args.decompress_out
       IN  \E code \in ExitCodes :
             /\ events' = Append(events, Event("decompress", 0, fmt, code))
             /\ IF code # 0
                THEN /\ Return(DecompressFailureCode(code))
                     /\ UNCHANGED fs
                ELSE /\ Return(0)
                     /\ fs' = [fs EXCEPT !.out = Put(@, decompressed_out, 57)]
    /\ UNCHANGED <<ledgerVars, cfg, idx, loc, initial, call>>

NextMain ==
    \/ MainValidate
    \/ MainOpenLog
    \/ MainCheckDocker
    \/ MainImage
    \/ CompressMode
    \/ CompressModeEnd
    \/ DecompressMode
    \/ StartRun
    \/ TsvStage
    \/ DiscoverAndRender
    \/ RdfStage
    \/ CompressStep
    \/ WriteMetrics
    \/ RemoveStep
    \/ FinalCleanup

SpecMain == InitMain /\ [][NextMain]_vars

(***************************************************************************)
(* SpecNames: single calls of the naming functions of the compression and  *)
(* decompression steps.                                                    *)
(***************************************************************************)
\* file stems, the directories of RDF sources and the RDF extensions
NameStems == {"sample", "sample_a", "rdf", "a.b", "x-1", "S"}
SourceDirs == {"", "out/sample/", "data/"}
RdfExtensions == {"nt", "nq"}

\* what precedes the last suffix of a compressed input, and the suffixes
\* detect_compressed_format accepts
InnerSuffixes == {"", ".nq", ".nt", ".ttl", ".hdt"}
CompressedSuffixes == {".gz", ".br", ".hdt"}

InitNames ==
    /\ Idle
    /\ \/ \E dir \in SourceDirs, stem \in NameStems, ext \in RdfExtensions,
             method \in MethodNames :
             call = [op |-> "compressed_name", done |-> FALSE,
                     dir |-> dir, stem |-> stem, ext |-> ext,
                     method |-> method]
       \/ \E stem \in NameStems, inner \in InnerSuffixes,
             last \in CompressedSuffixes :
             call = [op |-> "default_decompressed_name", done |-> FALSE,
                     stem |-> stem, inner |-> inner, last |-> last]

\* run_compression_methods_for_rdf: the name and the place of one method's
\* output for the source <dir><stem>.<ext>
CompressedNameCall ==
    /\ call.op = "compressed_name"
    /\ ~call.done
    /\ LET rdf_path == call.dir \o call.stem \o "." \o call.ext
       IN  call' = [op |-> call.op, done |-> TRUE,
                    dir |-> call.dir, stem |-> call.stem, ext |-> call.ext,
                    method |-> call.method,
                    name |-> CompressedName(rdf_path, call.method),
                    path |-> CompressedPath(rdf_path, call.method)]
    /\ UNCHANGED <<ledgerVars, runVars>>

\* default_decompressed_name(path, detect_compressed_format(path)) for the
\* input <stem><inner><last>
DecompressedNameCall ==
    /\ call.op = "default_decompressed_name"
    /\ ~call.done
    /\ LET name == call.stem \o call.inner \o call.last
       IN  call' = [op |-> call.op, done |-> TRUE,
                    stem |-> call.stem, inner |-> call.inner,
                    last |-> call.last,
                    fmt |-> detect_compressed_format(name),
                    result |-> default_decompressed_name(
                                   name, detect_compressed_format(name))]
    /\ UNCHANGED <<ledgerVars, runVars>>

NextNames ==
    \/ CompressedNameCall
    \/ DecompressedNameCall

SpecNames == InitNames /\ [][NextNames]_vars

(***************************************************************************)
(* Properties of the ledger (SpecLedger).                                  *)
(***************************************************************************)
ArgsKey(a) == <<a.run_id, a.output_name>>

\* the column of each name of the canonical schema
ColumnOf ==
    [n \in Range(METRICS_HEADER) |->
        CHOOSE c \in DOMAIN METRICS_HEADER : METRICS_HEADER[c] = n]

\* a line of a ledger file with the canonical header, by column name
RowsOf(file) ==
    [i \in DOMAIN file.rows |->
        [n \in Range(METRICS_HEADER) |-> file.rows[i][ColumnOf[n]]]]

\* the keys of the lines of a ledger file with the canonical header
KeyAt(file, i) ==
    <<file.rows[i][ColumnOf["run_id"]], file.rows[i][ColumnOf["output_name"]]>>
KeysIn(file) == {KeyAt(file, i) : i \in DOMAIN file.rows}

\* the ledger file as update k left it
PostOf(k) == IF k < Len(history) THEN history[k + 1].pre ELSE ledger

\* a file whose first line is a header other than the canonical schema
HasOtherHeader(file) ==
    file.exists /\ file.header # <<>> /\ file.header # METRICS_HEADER

\* the file an update starts from when it keeps the rows: a canonical file
Canonical(file) == file.exists /\ file.header = METRICS_HEADER

\* C1: no two rows of the ledger share a (run_id, output_name) pair, and
\* every update either rewrites the one row holding its key or appends
\* exactly one new row.
C1_NoDuplicateKeys ==
    \A k \in DOMAIN history :
        LET pre == history[k].pre
            post == PostOf(k)
            key == ArgsKey(history[k].args)
        IN  /\ \A i, j \in DOMAIN post.rows :
                  KeyAt(post, i) = KeyAt(post, j) => i = j
            /\ Cardinality({i \in DOMAIN post.rows : KeyAt(post, i) = key}) = 1
            /\ Len(post.rows) =
                  IF Canonical(pre)
                  THEN Len(pre.rows) + (IF key \in KeysIn(pre) THEN 0 ELSE 1)
                  ELSE 1

\* C1 witness: two updates with one key on a ledger that held another row:
\* one row appended, then rewritten in place.
C1_Witness ==
    /\ Len(history) = 2
    /\ ArgsKey(history[1].args) = ArgsKey(history[2].args)
    /\ Len(history[1].pre.rows) = 1
    /\ Len(ledger.rows) = 2

\* the compression fields a result set stands for
FieldsFromResults(row, a) ==
    /\ row["combined_nq_size_bytes"] = IntStr(a.combined_size_bytes)
    /\ row["compression_methods"] =
          (IF a.selected_methods = <<>> THEN "none"
           ELSE Join(a.selected_methods, "|"))
    /\ \A m \in MethodNames :
          /\ row["user_seconds_" \o m] = "null"
          /\ row["sys_seconds_" \o m] = "null"
          /\ row["max_rss_kb_" \o m] = "null"
          /\ IF m \in DOMAIN a.method_results
             THEN LET r == a.method_results[m]
                  IN  /\ row[m \o "_size_bytes"] =
                            (IF "output_size_bytes" \in DOMAIN r
                             THEN IntStr(r.output_size_bytes) ELSE "0")
                      /\ row["exit_code_" \o m] = IntStr(r.exit_code)
                      /\ row["wall_seconds_" \o m] =
                            (IF "wall_seconds" \in DOMAIN r
                             THEN FormatWall(r.wall_seconds) ELSE "null")
             ELSE /\ row[m \o "_size_bytes"] = "0"
                  /\ row["exit_code_" \o m] = "0"
                  /\ row["wall_seconds_" \o m] = "null"

\* C2: after two updates with the same key the ledger holds one row for the
\* key, and its compression fields are those of the second update alone.
C2_SecondUpdateWins ==
    \A k \in DOMAIN history :
        (k > 1 /\ ArgsKey(history[k - 1].args) = ArgsKey(history[k].args)) =>
            LET post == PostOf(k)
                key == ArgsKey(history[k].args)
            IN  /\ Cardinality({i \in DOMAIN post.rows : KeyAt(post, i) = key}) = 1
                /\ \A i \in DOMAIN post.rows :
                      KeyAt(post, i) = key =>
                          FieldsFromResults(RowsOf(post)[i], history[k].args)

\* C2 witness: the first update recorded a method the second one lacks.
C2_Witness ==
    /\ Len(history) = 2
    /\ ArgsKey(history[1].args) = ArgsKey(history[2].args)
    /\ "brotli" \in DOMAIN history[1].args.method_results
    /\ "brotli" \notin DOMAIN history[2].args.method_results
    /\ "hdt" \in DOMAIN history[2].args.method_results
    /\ history[1].args.combined_size_bytes # history[2].args.combined_size_bytes

\* C3: an update that finds a ledger with another header copies the file
\* as it was to <ledger>.bak-<run_id> and leaves the canonical header and
\* only its own row.
C3_MismatchBackedUp ==
    \A k \in DOMAIN history :
        HasOtherHeader(history[k].pre) =>
            /\ backups[BackupName(history[k].args.run_id)] = history[k].pre
            /\ PostOf(k).exists
            /\ PostOf(k).header = METRICS_HEADER
            /\ Len(PostOf(k).rows) = 1
            /\ KeyAt(PostOf(k), 1) = ArgsKey(history[k].args)
            /\ \A c \in DOMAIN history[k].pre.rows :
                  history[k].pre.rows[c] # PostOf(k).rows[1]

\* C3 witness: the update met the canonical columns in another order.
C3_Witness ==
    /\ Len(history) >= 1
    /\ history[1].pre = ReorderedLedger
    /\ backups[BackupName(history[1].args.run_id)] = ReorderedLedger

\* C4: after every update the ledger's header is the canonical schema, 36
\* names in order, whatever the file was before; an absent ledger becomes
\* the canonical header and the update's row.
C4_HeaderCanonical ==
    \A k \in DOMAIN history :
        /\ PostOf(k).exists
        /\ PostOf(k).header = METRICS_HEADER
        /\ Len(PostOf(k).header) = 36
        /\ \A i \in DOMAIN PostOf(k).rows : Len(PostOf(k).rows[i]) = 36
        /\ ~history[k].pre.exists => Len(PostOf(k).rows) = 1

\* C4 witness: the first update found no ledger file.
C4_Witness ==
    /\ Len(history) = 1
    /\ ~history[1].pre.exists
    /\ ledger.header = METRICS_HEADER

\* C36: an update that finds a ledger file without any line takes it for
\* an empty ledger with the canonical header: it writes no backup copy and
\* leaves the canonical header followed by its own row alone.
C36_EmptyFileIsEmptyLedger ==
    \A k \in DOMAIN history :
        history[k].pre = EmptyLedgerFile =>
            /\ \A n \in BackupNames : backups[n] # EmptyLedgerFile
            /\ k = 1 => \A n \in BackupNames : backups[n] = NoFile
            /\ PostOf(k).exists
            /\ PostOf(k).header = METRICS_HEADER
            /\ Len(PostOf(k).rows) = 1
            /\ KeyAt(PostOf(k), 1) = ArgsKey(history[k].args)
            /\ PostOf(k) = LedgerAfter(NoFile, history[k].args)

\* C36 witness: the update met a file without any line.
C36_Witness ==
    /\ Len(history) = 1
    /\ history[1].pre = EmptyLedgerFile
    /\ history[1].pre.exists
    /\ Len(ledger.rows) = 1

\* the row of update k's key in the file the update left, by column name
RowAfter(k) ==
    LET post == PostOf(k)
    IN  RowsOf(post)[CHOOSE i \in DOMAIN post.rows :
                        KeyAt(post, i) = ArgsKey(history[k].args)]

\* C23: after a ledger update, for each method m of gzip, brotli, hdt: when
\* m is absent from the result set its size field is "0", its exit-code
\* field "0" and its wall-time field "null"; when m is present the three
\* fields are the size, exit code and wall time recorded for it ("0", "0"
\* and "null" for what its result does not record); the user, sys and
\* max-rss fields of the three methods are "null".
C23_MethodFieldsFollowResultSet ==
    \A k \in DOMAIN history :
        LET results == history[k].args.method_results
            row == RowAfter(k)
        IN  \A m \in MethodNames :
              /\ row["user_seconds_" \o m] = "null"
              /\ row["sys_seconds_" \o m] = "null"
              /\ row["max_rss_kb_" \o m] = "null"
              /\ m \notin DOMAIN results =>
                    /\ row[SizeKey(m)] = "0"
                    /\ row[ExitKey(m)] = "0"
                    /\ row[WallKey(m)] = "null"
              /\ m \in DOMAIN results =>
                    /\ row[ExitKey(m)] = IntStr(results[m].exit_code)
                    /\ "output_size_bytes" \in DOMAIN results[m] =>
                          row[SizeKey(m)] = IntStr(results[m].output_size_bytes)
                    /\ "output_size_bytes" \notin DOMAIN results[m] =>
                          row[SizeKey(m)] = "0"
                    /\ "wall_seconds" \in DOMAIN results[m] =>
                          row[WallKey(m)] = FormatWall(results[m].wall_seconds)
                    /\ "wall_seconds" \notin DOMAIN results[m] =>
                          row[WallKey(m)] = "null"

\* C23 witness: the second update of a key records gzip with size and wall
\* time and brotli with its exit code alone, and lacks hdt, which the first
\* update had recorded.
C23_Witness ==
    /\ Len(history) = 2
    /\ ArgsKey(history[1].args) = ArgsKey(history[2].args)
    /\ "hdt" \in DOMAIN history[1].args.method_results
    /\ "hdt" \notin DOMAIN history[2].args.method_results
    /\ "gzip" \in DOMAIN history[2].args.method_results
    /\ RowAfter(2)[SizeKey("gzip")] = "22"
    /\ RowAfter(2)[WallKey("gzip")] = "1.500000"
    /\ "brotli" \in DOMAIN history[2].args.method_results
    /\ RowAfter(2)[ExitKey("brotli")] = "2"
    /\ RowAfter(2)[SizeKey("hdt")] = "0"

\* the columns an update of the compression fields leaves alone: run_id to
\* output_path
ConversionColumns == 1..16

\* C30: an update for a key on a ledger with the canonical header changes
\* nothing but that key's row: every other row keeps its cells and its
\* place, a new row is appended last, the conversion fields of a matching
\* row are unchanged, and no backup file is created.
C30_UpdateTouchesOnlyItsRow ==
    /\ \A k \in DOMAIN history :
          LET pre == history[k].pre
              post == PostOf(k)
              key == ArgsKey(history[k].args)
          IN  Canonical(pre) =>
                /\ post.header = pre.header
                /\ \A i \in DOMAIN pre.rows :
                      /\ i \in DOMAIN post.rows
                      /\ KeyAt(post, i) = KeyAt(pre, i)
                      /\ KeyAt(pre, i) # key => post.rows[i] = pre.rows[i]
                      /\ KeyAt(pre, i) = key =>
                            \A c \in ConversionColumns :
                                post.rows[i][c] = pre.rows[i][c]
                /\ Len(post.rows) =
                      Len(pre.rows) + (IF key \in KeysIn(pre) THEN 0 ELSE 1)
                /\ key \notin KeysIn(pre) =>
                      KeyAt(post, Len(post.rows)) = key
    /\ \A n \in BackupNames :
          backups[n].exists =>
              \E k \in DOMAIN history :
                  /\ BackupName(history[k].args.run_id) = n
                  /\ ~Canonical(history[k].pre)

\* C30 witness: the second update rewrites the first of two rows, a row a
\* conversion had filled in, and leaves the second row alone.
C30_Witness ==
    /\ Len(history) = 2
    /\ Canonical(history[1].pre)
    /\ Len(history[2].pre.rows) = 2
    /\ KeyAt(history[2].pre, 1) = ArgsKey(history[2].args)
    /\ ledger.rows[1][14] = "fake.jar"
    /\ ledger.rows[1] # history[2].pre.rows[1]
    /\ ledger.rows[2] = history[2].pre.rows[2]
    /\ \A n \in BackupNames : ~backups[n].exists

(***************************************************************************)
(* Properties of a full-mode run (Spec).                                   *)
(***************************************************************************)
Selected == ParseCompressionMethods(cfg.compression)

\* the output name of input i
OutputNameOf(i) == slugify(vcf_output_prefix(cfg.inputs[i]))

\* the events of one kind for input i, in order
EventsOf(kind, i) ==
    SelectSeq(events, LAMBDA e : e.kind = kind /\ e.input = i)

\* some event of the kind for input i, with the exit code, before position k
Before(k, kind, i, exit) ==
    \E j \in 1..(k - 1) :
        events[j].kind = kind /\ events[j].input = i /\ events[j].exit = exit

\* C5: when a selected method exits non-zero in full mode, the ledger row
\* of (run_id, output_name) carries the failing method's exit code by the
\* time the run has returned.
C5_FailedCompressionFlushed ==
    pc = "done" =>
        \A k \in DOMAIN events :
            (events[k].kind = "compress" /\ events[k].exit # 0) =>
                /\ Canonical(ledger)
                /\ \E i \in DOMAIN ledger.rows :
                      /\ KeyAt(ledger, i) =
                            <<cfg.run_id, OutputNameOf(events[k].input)>>
                      /\ ledger.rows[i][ColumnOf["exit_code_" \o events[k].arg]]
                            = IntStr(events[k].exit)

\* C6: the methods are invoked one at a time in list order; after a method
\* exited non-zero none is invoked for that input, the run fails, and the
\* result set holds exactly the methods attempted.
C6_FailFastInOrder ==
    \A i \in 1..Len(cfg.inputs) :
        LET tried == EventsOf("compress", i)
        IN  /\ Len(tried) <= Len(Selected)
            /\ \A j \in DOMAIN tried : tried[j].arg = Selected[j]
            /\ \A j \in DOMAIN tried : j < Len(tried) => tried[j].exit = 0
            /\ (Len(tried) > 0 /\ tried[Len(tried)].exit # 0) =>
                  pc = "done" /\ rc # 0 /\ idx = i
            /\ (i = idx /\ (pc \in {"compress", "metrics"}
                            \/ (Len(tried) > 0 /\ tried[Len(tried)].exit # 0))) =>
                  /\ DOMAIN loc.method_results = {tried[j].arg : j \in DOMAIN tried}
                  /\ \A j \in DOMAIN tried :
                        loc.method_results[tried[j].arg].exit_code = tried[j].exit

\* C6 witness: of three methods the first succeeded, the second failed.
C6_Witness ==
    /\ Len(Selected) = 3
    /\ Len(EventsOf("compress", 1)) = 2
    /\ EventsOf("compress", 1)[1].exit = 0
    /\ EventsOf("compress", 1)[2].exit # 0
    /\ pc = "done"

\* C7: the stages are strictly ordered: an input's RDF stage follows its
\* TSV stage's exit 0, its triplet's discovery and its rules' rendering;
\* each compression follows its RDF stage's exit 0; nothing of input i+1
\* starts before the ledger update and the cleanup of input i are done.
C7_StagesOrdered ==
    \A k \in DOMAIN events :
        LET e == events[k]
        IN  /\ \A j \in 1..(k - 1) : events[j].input <= e.input
            /\ e.kind = "rdf" =>
                  \E c \in 1..(k - 1) :
                      /\ events[c].kind = "render" /\ events[c].input = e.input
                      /\ \E b \in 1..(c - 1) :
                            /\ events[b].kind = "discover"
                            /\ events[b].input = e.input
                            /\ \E a \in 1..(b - 1) :
                                  events[a] = Event("tsv", e.input,
                                                    cfg.inputs[e.input], 0)
            /\ e.kind = "compress" => Before(k, "rdf", e.input, 0)
            /\ e.input > 1 =>
                  /\ Before(k, "ledger", e.input - 1, 0)
                  /\ Before(k, "input_done", e.input - 1, 0)
                  /\ ~cfg.keep_tsv =>
                        \A f \in TripletFiles(vcf_output_prefix(cfg.inputs[e.input - 1])) :
                            \E j \in 1..(k - 1) :
                                /\ events[j].kind \in {"unlink", "rm"}
                                /\ events[j].input = e.input - 1
                                /\ events[j].arg = f
                                /\ events[j].exit = 0

\* C7 witness: the second input's compression has started.
C7_Witness ==
    \E k \in DOMAIN events :
        events[k].kind = "compress" /\ events[k].input = 2 /\ ~cfg.keep_tsv

ExpectedPrefixes == Range(cfg.prefixes)

\* a triplet of another run lies in the TSV directory
StaleTripletPresent == TripletFiles("stale") \subseteq DOMAIN fs.tsv.files

\* C12: only the triplet of the input's expected prefix is discovered for
\* it, rendered into rules and handed to the RDF stage; a triplet whose
\* prefix the snapshot does not expect is never rendered, never converted
\* and never written to the ledger.
C12_OnlyExpectedTriplets ==
    /\ \A k \in DOMAIN events :
          LET e == events[k]
              expected == cfg.prefixes[e.input]
          IN  /\ e.kind = "discover" => e.arg = expected
              /\ e.kind \in {"render", "rdf"} =>
                    e.arg = slugify(expected) \o ".rules.ttl"
              /\ e.kind = "ledger" => e.arg = slugify(expected)
    /\ pc \in {"rdf", "compress", "metrics", "rm_rdf", "rm_tsv"} =>
          /\ loc.triplet = Triplet(cfg.prefixes[idx])
          /\ fs.rules.files[slugify(cfg.prefixes[idx]) \o ".rules.ttl"] =
                <<"/data/tsv/" \o cfg.prefixes[idx] \o ".records.tsv",
                  "/data/tsv/" \o cfg.prefixes[idx] \o ".header_lines.tsv",
                  "/data/tsv/" \o cfg.prefixes[idx] \o ".file_metadata.tsv">>
    /\ pc # "start" =>
          \A n \in DOMAIN fs.rules.files :
              \E q \in ExpectedPrefixes : n = slugify(q) \o ".rules.ttl"
    /\ \A h \in DOMAIN history :
          history[h].args.output_name \in {slugify(q) : q \in ExpectedPrefixes}
    /\ Canonical(ledger) =>
          \A i \in DOMAIN ledger.rows :
              KeyAt(ledger, i)[2] \in {slugify(q) : q \in ExpectedPrefixes}

\* C12 witness: a run that found a stale triplet has converted its second
\* input and written it to the ledger.
C12_Witness ==
    /\ StaleTripletPresent
    /\ pc = "done" /\ rc = 0
    /\ \E k \in DOMAIN events :
          events[k].kind = "ledger" /\ events[k].input = 2

\* the snapshot of the input directory as the run found it
SnapshotAtStart == ListVcfsInDir(initial.input)

\* the inputs the TSV stage was invoked for, in order
TsvInvoked ==
    LET tsv == SelectSeq(events, LAMBDA e : e.kind = "tsv")
    IN  [k \in DOMAIN tsv |-> tsv[k].arg]

\* C13: the inputs a run processes are the snapshot taken at its start, in
\* file-name order; a later change of the input directory changes neither
\* the inputs the TSV stage is invoked for, nor their order, nor the
\* expected prefixes.
C13_SnapshotImmutable ==
    /\ cfg.inputs = SnapshotAtStart
    /\ cfg.prefixes = [i \in DOMAIN SnapshotAtStart |->
                          vcf_output_prefix(SnapshotAtStart[i])]
    /\ Len(TsvInvoked) <= Len(SnapshotAtStart)
    /\ TsvInvoked = SubSeq(SnapshotAtStart, 1, Len(TsvInvoked))
    /\ \A k \in DOMAIN events :
          events[k].kind = "discover" =>
              events[k].arg = vcf_output_prefix(SnapshotAtStart[events[k].input])
    /\ (pc = "done" /\ rc = 0) => TsvInvoked = SnapshotAtStart

\* C13 witness: the directory listing changed before the second input's
\* TSV stage, and the run still processed the snapshot.
C13_Witness ==
    /\ pc = "done" /\ rc = 0
    /\ Len(SnapshotAtStart) = 2
    /\ ListVcfsInDir(fs.input) # SnapshotAtStart
    /\ \E j, k \in DOMAIN events :
          /\ j < k
          /\ events[j].kind = "input_dir_changed"
          /\ events[k].kind = "tsv" /\ events[k].input = 2

\* the cells of the ledger line with the key, <<>> when there is none
RowOfKey(file, key) ==
    IF Canonical(file) /\ key \in KeysIn(file)
    THEN file.rows[CHOOSE i \in DOMAIN file.rows : KeyAt(file, i) = key]
    ELSE <<>>

\* C14: when the triplets discovered after an input's TSV stage lack its
\* expected prefix the run ends there with a non-zero code: no RDF stage
\* for that input, nothing for later inputs, and the ledger rows of the
\* earlier inputs of the run are present as their updates wrote them.
C14_MissingTripletAborts ==
    \A k \in DOMAIN events :
        events[k].kind = "no_triplet" =>
            LET i == events[k].input
            IN  /\ k = Len(events)
                /\ pc = "done" /\ rc # 0
                /\ events[k - 1] = Event("tsv", i, cfg.inputs[i], 0)
                /\ EventsOf("rdf", i) = <<>>
                /\ \A j \in DOMAIN events : events[j].input <= i
                /\ Len(history) = i - 1
                /\ i > 1 =>
                      ledger = LedgerAfter(history[i - 1].pre,
                                           history[i - 1].args)
                /\ \A j \in 1..(i - 1) :
                      LET key == <<cfg.run_id, OutputNameOf(j)>>
                      IN  /\ history[j].args.output_name = OutputNameOf(j)
                          /\ RowOfKey(ledger, key) # <<>>
                          /\ (\A n \in (j + 1)..(i - 1) :
                                 OutputNameOf(n) # OutputNameOf(j)) =>
                                RowOfKey(ledger, key) =
                                    RowOfKey(LedgerAfter(history[j].pre,
                                                         history[j].args), key)

\* C14 witness: the second input's TSV stage exited 0 without leaving its
\* triplet, after the first input's row was written.
C14_Witness ==
    /\ Len(events) > 0
    /\ events[Len(events)].kind = "no_triplet"
    /\ events[Len(events)].input = 2
    /\ RowOfKey(ledger, <<cfg.run_id, OutputNameOf(1)>>) # <<>>
    /\ pc = "done"

\* the raw RDF files the RDF stage left for input i
RawRdfOf(i) == RdfOutputs(cfg.rdf_kind, OutputNameOf(i))

\* the RDF stage of input i succeeded
RdfSucceeded(i) == \E k \in DOMAIN events : events[k] =
                      Event("rdf", i, RulesFileName(OutputNameOf(i)), 0)

\* every selected method exited 0 for input i
AllMethodsSucceeded(i) ==
    \A m \in Range(Selected) :
        \E k \in DOMAIN events : events[k] = Event("compress", i, m, 0)

\* the conditions under which the raw RDF of input i may be deleted
MayDeleteRdf(i) ==
    ~cfg.keep_rdf /\ Selected # <<>> /\ AllMethodsSucceeded(i)

\* C20: the raw RDF outputs of an input (<name>.nt, <name>.nq) are deleted
\* only when --keep-rdf is not set, a compression method is selected and
\* every selected method exited 0 for that input: no removal is attempted
\* on them otherwise, and with --keep-rdf, with `none` or after a
\* compression failure what the RDF stage left is still there.
C20_RawRdfDeletedOnlyAfterCompression ==
    /\ \A k \in DOMAIN events :
          (/\ events[k].kind \in {"unlink", "rm"}
           /\ events[k].arg \in {NtPath(OutputNameOf(events[k].input)),
                                 NqPath(OutputNameOf(events[k].input))}) =>
              MayDeleteRdf(events[k].input)
    /\ \A i \in DOMAIN cfg.inputs :
          RdfSucceeded(i) =>
              \A path \in RawRdfOf(i) :
                  path \notin DOMAIN fs.out =>
                      \E j \in DOMAIN cfg.inputs :
                          /\ OutputNameOf(j) = OutputNameOf(i)
                          /\ MayDeleteRdf(j)

C20_Witness ==
    /\ pc = "done"
    /\ ~cfg.keep_rdf
    /\ \E k \in DOMAIN events :
          /\ events[k].kind = "compress" /\ events[k].exit # 0
          /\ RawRdfOf(events[k].input) # {}
          /\ RawRdfOf(events[k].input) \subseteq DOMAIN fs.out

\* C21: when the removal of an intermediate file fails (the direct delete
\* is denied and the fallback removal fails too) the run ends there with a
\* non-zero code and unwinds nothing: the ledger is as the input's update
\* left it, with a row for that input and for each earlier one, and the
\* metrics artifacts and compressed outputs written for them are in place
\* with the sizes recorded for them.
C21_RemovalFailureKeepsResults ==
    \A k \in DOMAIN events :
        (events[k].kind = "rm" /\ events[k].exit # 0) =>
            LET i == events[k].input
            IN  /\ k = Len(events)
                /\ events[k - 1].kind = "unlink" /\ events[k - 1].exit # 0
                /\ pc = "done" /\ rc # 0
                /\ Len(history) = i
                /\ ledger = LedgerAfter(history[i].pre, history[i].args)
                /\ \A j \in 1..i :
                      LET a == history[j].args
                      IN  /\ a.output_name = OutputNameOf(j)
                          /\ RowOfKey(ledger, <<a.run_id, a.output_name>>) # <<>>
                          /\ MetricsArtifacts(a.run_id, a.output_name,
                                              a.method_results)
                                \subseteq DOMAIN fs.metrics
                          /\ DOMAIN a.method_results = Range(Selected)
                          /\ \A m \in DOMAIN a.method_results :
                                /\ a.method_results[m].output_path
                                      \in DOMAIN fs.out
                                /\ fs.out[a.method_results[m].output_path] =
                                      a.method_results[m].output_size_bytes

C21_Witness ==
    /\ pc = "done"
    /\ events # <<>>
    /\ events[Len(events)].kind = "rm"
    /\ events[Len(events)].exit # 0
    /\ events[Len(events)].input = 2
    /\ Selected # <<>>

\* C32: for each input the ledger row, with the source size measured while
\* the file was there, is written before a removal of that input's raw RDF
\* or triplet files is attempted; and when the metrics write fails the run
\* returns with every raw RDF file and triplet file of that input in place.
C32_LedgerBeforeDeletion ==
    /\ \A k \in DOMAIN events :
          events[k].kind \in {"unlink", "rm"} =>
              LET i == events[k].input
              IN  /\ Before(k, "ledger", i, 0)
                  /\ Len(history) >= i
                  /\ history[i].args.output_name = OutputNameOf(i)
                  /\ RowOfKey(ledger, <<cfg.run_id, OutputNameOf(i)>>) # <<>>
                  /\ RawRdfOf(i) # {} =>
                        history[i].args.combined_size_bytes
                            \in {RdfSize(i), NqSize(i)}
    /\ \A k \in DOMAIN events :
          events[k].kind = "metrics_error" =>
              LET i == events[k].input
              IN  /\ k = Len(events)
                  /\ pc = "done" /\ rc # 0
                  /\ RawRdfOf(i) \subseteq DOMAIN fs.out
                  /\ TripletFiles(cfg.prefixes[i]) \subseteq DOMAIN fs.tsv.files
                  /\ \A j \in DOMAIN events :
                        events[j].kind \in {"unlink", "rm"} =>
                            events[j].input < i

\* C32 witness, first part: the second input's files are removed after its
\* row was written.
C32_Witness ==
    /\ pc = "done" /\ rc = 0
    /\ \E k \in DOMAIN events :
          /\ events[k].kind = "rm" /\ events[k].exit = 0
          /\ events[k].input = 2
          /\ events[k].arg = RecordsName(cfg.prefixes[2])
    /\ \E k \in DOMAIN events :
          /\ events[k].kind = "unlink" /\ events[k].input = 2
          /\ events[k].arg \in RawRdfOf(2)

\* the input just completed, if any, when the loop is between two inputs
\* or past the last one
JustCompleted ==
    IF pc = "tsv" /\ idx > 1 THEN {idx - 1}
    ELSE IF pc = "cleanup" THEN {idx}
    ELSE {}

\* C33: without --keep-tsv, once an input is complete the three files of
\* its matched triplet are gone from the TSV directory and no removal was
\* attempted on any other TSV file; a TSV directory that existed before
\* the run stays, with every entry that is not a matched triplet file; with
\* --keep-tsv no removal is attempted on a TSV file, every matched triplet
\* stays and the directory stays.
C33_ExactlyTripletRemoved ==
    /\ \A k \in DOMAIN events :
          events[k].kind \in {"unlink", "rm"} =>
              LET i == events[k].input
              IN  /\ events[k].arg \in RawRdfOf(i) \cup
                                       TripletFiles(cfg.prefixes[i])
                  /\ events[k].arg \in TripletFiles(cfg.prefixes[i]) =>
                        /\ ~cfg.keep_tsv
                        /\ Before(k, "discover", i, 0)
    /\ ~cfg.keep_tsv =>
          \A i \in JustCompleted :
              TripletFiles(cfg.prefixes[i]) \cap DOMAIN fs.tsv.files = {}
    /\ (initial.tsv.exists /\ pc # "start") =>
          /\ fs.tsv.exists
          /\ \A n \in DOMAIN initial.tsv.files :
                n \notin DOMAIN fs.tsv.files =>
                    /\ ~cfg.keep_tsv
                    /\ \E i \in 1..idx :
                          /\ n \in TripletFiles(cfg.prefixes[i])
                          /\ Before(Len(events) + 1, "ledger", i, 0)
    /\ (cfg.keep_tsv /\ pc # "start") =>
          /\ fs.tsv.exists
          /\ DOMAIN initial.tsv.files \subseteq DOMAIN fs.tsv.files
          /\ \A k \in DOMAIN events :
                (events[k].kind = "discover" /\ events[k].exit = 0) =>
                    TripletFiles(cfg.prefixes[events[k].input])
                        \subseteq DOMAIN fs.tsv.files

\* C33 witness: a run over two inputs in a TSV directory that existed
\* removed both triplets and left the other entries.
C33_Witness ==
    /\ pc = "done" /\ rc = 0
    /\ ~cfg.keep_tsv
    /\ initial.tsv.exists
    /\ Len(cfg.inputs) = 2
    /\ cfg.prefixes[1] # cfg.prefixes[2]
    /\ DOMAIN fs.tsv.files = DOMAIN initial.tsv.files
    /\ "keep.me" \in DOMAIN fs.tsv.files
    /\ \E k \in DOMAIN events :
          /\ events[k].kind = "unlink" /\ events[k].exit = 0
          /\ events[k].arg = MetadataName(cfg.prefixes[2])

\* C34: the generated-rules directory is empty when the first input is
\* taken up, whatever it held; when an RDF stage is about to be invoked
\* every rules file in the directory was rendered during this run, the
\* file of the current input holds the rendering of that input's own
\* triplet, and that file is the one every RDF stage was handed.
C34_RulesRenderedThisRun ==
    /\ (pc = "tsv" /\ idx = 1) => fs.rules = Dir(NoFiles)
    /\ pc = "rdf" =>
          LET name == RulesFileName(slugify(ExpectedPrefix))
          IN  /\ fs.rules.exists
              /\ loc.triplet = Triplet(ExpectedPrefix)
              /\ name \in DOMAIN fs.rules.files
              /\ fs.rules.files[name] = RenderedRules(Triplet(ExpectedPrefix))
              /\ \A n \in DOMAIN fs.rules.files :
                    \E k \in DOMAIN events :
                        /\ events[k].kind = "render"
                        /\ events[k].arg = n
    /\ \A k \in DOMAIN events :
          events[k].kind = "rdf" =>
              /\ k > 1
              /\ events[k - 1].kind = "render"
              /\ events[k - 1].input = events[k].input
              /\ events[k - 1].arg = events[k].arg
              /\ events[k].arg =
                    RulesFileName(slugify(cfg.prefixes[events[k].input]))

\* C34 witness: the RDF stage of the second input is about to run in a
\* directory that held older rules files before the run.
C34_Witness ==
    /\ pc = "rdf" /\ idx = 2
    /\ initial.rules.exists
    /\ "stale.rules.ttl" \in DOMAIN initial.rules.files
    /\ cfg.prefixes[1] # cfg.prefixes[2]
    /\ Cardinality(DOMAIN fs.rules.files) = 2

\* the k-th event is a failure of the run: a stage that exited non-zero, a
\* discovery that found no usable triplet, a denied metrics write, or a
\* removal whose fallback failed
FailureAt(k) ==
    \/ events[k].kind \in {"tsv", "rdf", "compress", "rm"} /\ events[k].exit # 0
    \/ events[k].kind \in {"discover_error", "no_triplet", "metrics_error"}

\* the k-th event removed a triplet file of its input
RemovedTripletFile(k) ==
    /\ events[k].kind \in {"unlink", "rm"}
    /\ events[k].exit = 0
    /\ events[k].arg \in TripletFiles(cfg.prefixes[events[k].input])

\* the position of a triplet file in the order of the removal loop
TripletPosition(prefix, name) ==
    IF name = RecordsName(prefix) THEN 1
    ELSE IF name = HeaderName(prefix) THEN 2
    ELSE 3

\* C35 as stated: when the run fails, at whatever point, the end-of-run
\* cleanup does not happen, the TSV directory exists at exit and no triplet
\* file of the failing input has been deleted.
C35_FailureDeletesNoTripletFile ==
    \A k \in DOMAIN events :
        FailureAt(k) =>
            /\ k = Len(events)
            /\ pc = "done" /\ rc # 0
            /\ fs.tsv.exists
            /\ \A j \in DOMAIN events :
                  /\ events[j].kind # "cleanup"
                  /\ events[j].input = events[k].input => ~RemovedTripletFile(j)

\* C35: when the run fails the end-of-run cleanup does not happen and the
\* TSV directory exists at exit; unless the failure is the removal of one
\* of the input's triplet files no triplet file of the failing input has
\* been deleted; when it is, that file is still there and only the triplet
\* files before it in the removal order have been deleted.
C35_FailureSkipsCleanup ==
    \A k \in DOMAIN events :
        FailureAt(k) =>
            LET i == events[k].input
                prefix == cfg.prefixes[i]
                tsv_removal == /\ events[k].kind = "rm"
                               /\ events[k].arg \in TripletFiles(prefix)
            IN  /\ k = Len(events)
                /\ pc = "done" /\ rc # 0
                /\ fs.tsv.exists
                /\ \A j \in DOMAIN events : events[j].kind # "cleanup"
                /\ ~tsv_removal =>
                      \A j \in DOMAIN events :
                          events[j].input = i => ~RemovedTripletFile(j)
                /\ tsv_removal =>
                      /\ events[k].arg \in DOMAIN fs.tsv.files
                      /\ \A j \in DOMAIN events :
                            (events[j].input = i /\ RemovedTripletFile(j)) =>
                                TripletPosition(prefix, events[j].arg)
                                    < TripletPosition(prefix, events[k].arg)

\* C35 witness: a run that created its TSV directory fails on removing the
\* header file of its second input, the records file being gone already.
C35_Witness ==
    /\ pc = "done" /\ rc # 0
    /\ ~initial.tsv.exists
    /\ fs.tsv.exists
    /\ ~cfg.keep_tsv
    /\ idx = 2
    /\ events[Len(events)].kind = "rm"
    /\ events[Len(events)].exit # 0
    /\ events[Len(events)].arg = HeaderName(cfg.prefixes[2])
    /\ RecordsName(cfg.prefixes[2]) \notin DOMAIN fs.tsv.files
    /\ MetadataName(cfg.prefixes[2]) \in DOMAIN fs.tsv.files

\* the inputs that are the first, and the last, with their output name
FirstWithName(i) == \A j \in 1..(i - 1) : OutputNameOf(j) # OutputNameOf(i)
LastWithName(i) ==
    \A j \in (i + 1)..Len(cfg.inputs) : OutputNameOf(j) # OutputNameOf(i)

\* the distinct output names of the snapshot, in order of first processing
NamesInOrder ==
    LET firsts == SelectSeq([i \in DOMAIN cfg.inputs |-> i], FirstWithName)
    IN  [k \in DOMAIN firsts |-> OutputNameOf(firsts[k])]

\* the rows of the ledger that carry the run's run_id, by column name
RunRows ==
    LET all == RowsOf(ledger)
    IN  SelectSeq(all, LAMBDA r : r["run_id"] = cfg.run_id)

\* C22: after a successful run over a snapshot of n inputs the TSV stage
\* was invoked exactly n times, once per snapshot entry (colliding prefixes
\* are not deduplicated), and the rows of the ledger with the run's run_id
\* are one per distinct output name, in order of first processing; the row
\* of a name carries the values of the last input with that name.
C22_OneRowPerOutputName ==
    (pc = "done" /\ rc = 0) =>
        /\ Len(SelectSeq(events, LAMBDA e : e.kind = "tsv")) = Len(cfg.inputs)
        /\ \A i \in DOMAIN cfg.inputs :
              EventsOf("tsv", i) = <<Event("tsv", i, cfg.inputs[i], 0)>>
        /\ Len(history) = Len(cfg.inputs)
        /\ Canonical(ledger)
        /\ [k \in DOMAIN RunRows |-> RunRows[k]["output_name"]] = NamesInOrder
        /\ \A k \in DOMAIN RunRows :
              \E i \in DOMAIN cfg.inputs :
                  /\ OutputNameOf(i) = RunRows[k]["output_name"]
                  /\ LastWithName(i)
                  /\ FieldsFromResults(RunRows[k], history[i].args)

\* C22 witness: a successful run over two inputs with one output name, the
\* second conversion larger than the first.
C22_Witness ==
    /\ pc = "done" /\ rc = 0
    /\ Len(cfg.inputs) = 2
    /\ OutputNameOf(1) = OutputNameOf(2)
    /\ history[1].args.combined_size_bytes
          # history[2].args.combined_size_bytes

\* the methods the --compression flag of the run names, each once, in the
\* order of their first mention
RequestedOnce ==
    LET toks == cfg.compression
        firsts == SelectSeq([i \in DOMAIN toks |-> i],
                            LAMBDA i : /\ toks[i] # ""
                                       /\ \A j \in 1..(i - 1) : toks[j] # toks[i])
    IN  IF toks = <<"none">> THEN <<>>
        ELSE [n \in DOMAIN firsts |-> toks[firsts[n]]]

\* C24: the compression_methods field of a row the run wrote lists the
\* requested methods in requested order, each once (a repeated method keeps
\* its first place), joined by "|", or is "none" when nothing is selected;
\* each is one of gzip, brotli, hdt; and the methods are run in that order
\* for every input.
C24_MethodsFieldInRunOrder ==
    /\ Range(RequestedOnce) \subseteq MethodNames
    /\ \A k \in DOMAIN history :
          RowAfter(k)["compression_methods"] =
              (IF RequestedOnce = <<>> THEN "none"
               ELSE Join(RequestedOnce, "|"))
    /\ \A i \in DOMAIN cfg.inputs :
          LET ran == EventsOf("compress", i)
          IN  /\ Len(ran) <= Len(RequestedOnce)
              /\ \A n \in DOMAIN ran : ran[n].arg = RequestedOnce[n]
              /\ Len(history) >= i => Len(ran) = Len(RequestedOnce)

C24_Witness ==
    /\ cfg.compression = <<"hdt", "gzip", "hdt">>
    /\ Len(history) = 2
    /\ RowAfter(2)["compression_methods"] = "hdt|gzip"
    /\ Len(EventsOf("compress", 2)) = 2

\* C28: the compression source of an input is <name>.nt when the RDF stage
\* left it (whether or not <name>.nq is there too), else <name>.nq when
\* that exists, else the expected <name>.nt path; the source size in the
\* ledger row is the size of that file, 0 when it does not exist, and the
\* compressed outputs are those of that source.
C28_NtPreferredAsSource ==
    \A k \in DOMAIN history :
        LET a == history[k].args
            name == OutputNameOf(k)
            chosen == IF cfg.rdf_kind = "nq" THEN NqPath(name)
                      ELSE NtPath(name)
            size == IF cfg.rdf_kind \in {"nt", "both"} THEN RdfSize(k)
                    ELSE IF cfg.rdf_kind = "nq" THEN NqSize(k)
                    ELSE 0
        IN  /\ a.output_name = name
            /\ RowAfter(k)["combined_nq_size_bytes"] = IntStr(size)
            /\ \A m \in DOMAIN a.method_results :
                  a.method_results[m].output_path = CompressedPath(chosen, m)

\* C28 witness: the conversion left both files (kept by --keep-rdf) and the
\* row carries the size of the .nt file.
C28_Witness ==
    /\ cfg.rdf_kind = "both"
    /\ Len(history) = 2
    /\ cfg.keep_rdf
    /\ {NtPath(OutputNameOf(2)), NqPath(OutputNameOf(2))}
          \subseteq DOMAIN fs.out
    /\ RowAfter(2)["combined_nq_size_bytes"] = IntStr(RdfSize(2))
    /\ history[2].args.method_results # <<>>

(***************************************************************************)
(* Properties of remove_file_with_docker_fallback (SpecRemove).            *)
(***************************************************************************)
\* the path lies in the mount root: the root's components lead the path's
InsideRoot(path, mount_root) ==
    /\ Len(mount_root) <= Len(path)
    /\ \A i \in DOMAIN mount_root : path[i] = mount_root[i]

RemoveDone == call.op = "remove_file_with_docker_fallback" /\ call.done

\* C11: the direct delete comes first; the in-container rm is attempted
\* only after the direct delete was denied and only for a path inside the
\* mount root; for a path outside it nothing but the direct delete is
\* attempted and the removal reports failure.
C11_FallbackScopedToMountRoot ==
    RemoveDone =>
        LET steps == call.result.steps
        IN  /\ Len(steps) <= 2
            /\ call.exists => Len(steps) >= 1 /\ steps[1].kind = "unlink"
            /\ ~call.exists => steps = <<>> /\ call.result.ok
            /\ \A k \in DOMAIN steps :
                  steps[k].kind = "rm" =>
                      /\ k = 2
                      /\ steps[1].kind = "unlink" /\ steps[1].exit # 0
                      /\ InsideRoot(call.path, call.mount_root)
            /\ (call.exists /\ call.unlink = "denied"
                  /\ ~InsideRoot(call.path, call.mount_root)) =>
                  /\ ~call.result.ok
                  /\ ~call.result.gone
                  /\ \A k \in DOMAIN steps : steps[k].kind # "rm"
            /\ (call.exists /\ call.unlink = "denied"
                  /\ InsideRoot(call.path, call.mount_root)) =>
                  /\ Len(steps) = 2 /\ steps[2].kind = "rm"
                  /\ call.result.ok <=> steps[2].exit = 0

\* C11 witness: a denied delete of a file in a directory whose name only
\* begins like the mount root: rejected without a command.
C11_Witness ==
    /\ RemoveDone
    /\ call.path = <<"work", "out2", "sample_a.nt">>
    /\ call.mount_root = OutRoot
    /\ call.exists /\ call.unlink = "denied"
    /\ ~call.result.ok
    /\ Len(call.result.steps) = 1

(***************************************************************************)
(* Properties of discover_tsv_triplets (SpecDiscover).                     *)
(***************************************************************************)
DiscoverDone == call.op = "discover_tsv_triplets" /\ call.done

\* the prefixes whose records file is in the directory, and their place in
\* the order of the records file names
RecordsPrefixes ==
    {q \in Range(TsvPrefixes) : (q \o ".records.tsv") \in call.names}
PlaceOf(q) == CHOOSE i \in DOMAIN TsvPrefixes : TsvPrefixes[i] = q
HeaderMissing(q) == (q \o ".header_lines.tsv") \notin call.names
MetadataMissing(q) == (q \o ".file_metadata.tsv") \notin call.names
Defective == {q \in RecordsPrefixes : HeaderMissing(q) \/ MetadataMissing(q)}

\* C15 as stated: every records file that lacks its header sibling makes
\* the call fail naming that header path, and every one that lacks only
\* its metadata sibling makes it fail naming that metadata path.
C15_EveryMissingSiblingNamed ==
    DiscoverDone =>
        \A q \in RecordsPrefixes :
            /\ HeaderMissing(q) =>
                  /\ ~call.result.ok
                  /\ call.result.missing = q \o ".header_lines.tsv"
            /\ (~HeaderMissing(q) /\ MetadataMissing(q)) =>
                  /\ ~call.result.ok
                  /\ call.result.missing = q \o ".file_metadata.tsv"

\* C15 amended: the call returns the triplets of all records files, each
\* with its three files present, in the order of the records file names;
\* it fails when a records file lacks a sibling, naming the first missing
\* path (records files in order, the header before the metadata), and when
\* there is no records file; it never returns a partial list.
C15_DiscoverAllOrFail ==
    DiscoverDone =>
        LET r == call.result
        IN  /\ r.ok <=> (RecordsPrefixes # {} /\ Defective = {})
            /\ r.ok =>
                  /\ {r.triplets[i].prefix : i \in DOMAIN r.triplets}
                        = RecordsPrefixes
                  /\ Len(r.triplets) = Cardinality(RecordsPrefixes)
                  /\ \A i \in DOMAIN r.triplets :
                        LET t == r.triplets[i]
                        IN  /\ t.records = t.prefix \o ".records.tsv"
                            /\ t.headers = t.prefix \o ".header_lines.tsv"
                            /\ t.metadata = t.prefix \o ".file_metadata.tsv"
                            /\ {t.records, t.headers, t.metadata}
                                  \subseteq call.names
                  /\ \A i, j \in DOMAIN r.triplets :
                        i < j => PlaceOf(r.triplets[i].prefix)
                                    < PlaceOf(r.triplets[j].prefix)
            /\ ~r.ok => r.triplets = <<>>
            /\ Defective # {} =>
                  LET first == CHOOSE q \in Defective :
                                  \A o \in Defective : PlaceOf(q) <= PlaceOf(o)
                  IN  r.missing = IF HeaderMissing(first)
                                  THEN first \o ".header_lines.tsv"
                                  ELSE first \o ".file_metadata.tsv"

\* C15 witness: two defective records files; the error names the first
\* one's metadata path, not the second one's header path.
C15_Witness ==
    /\ DiscoverDone
    /\ call.names = {"sample_a.records.tsv", "sample_a.header_lines.tsv",
                     "sample_b.records.tsv"}
    /\ ~call.result.ok
    /\ call.result.missing = "sample_a.file_metadata.tsv"

(***************************************************************************)
(* Properties of concurrent ledger updates (SpecRace).                     *)
(***************************************************************************)
RaceDone == call.op = "race" /\ call.done

\* place of a step of a writer in the order the steps were taken
StepAt(w, step) == CHOOSE k \in DOMAIN call.log : call.log[k] = <<w, step>>

\* the row an invocation wrote is in the ledger as it wrote it
UpdateKept(w) ==
    RowOfKey(ledger, ArgsKey(call.args[w]))
        = RowOfKey(call.wrote[w], ArgsKey(call.args[w]))

\* C16: two unlocked read-then-rewrite updates of one ledger can lose an
\* update: once both are done the later writer's row is in the ledger,
\* and the earlier writer's row is in it exactly if the later writer read
\* the file after the earlier one had rewritten it.
C16_LostUpdateByInterleaving ==
    RaceDone =>
        \A w \in Writers, o \in Writers :
            (w # o /\ StepAt(o, "write") < StepAt(w, "write")) =>
                /\ Canonical(ledger)
                /\ UpdateKept(w)
                /\ RowOfKey(ledger, ArgsKey(call.args[w])) # <<>>
                /\ UpdateKept(o) <=> StepAt(o, "write") < StepAt(w, "read")

\* C16 witness: both invocations are done and the row the first wrote is
\* absent from the final ledger.
C16_Witness ==
    /\ RaceDone
    /\ call.log = <<<<1, "read">>, <<2, "read">>, <<1, "write">>, <<2, "write">>>>
    /\ ArgsKey(call.args[1]) \in KeysIn(call.wrote[1])
    /\ ArgsKey(call.args[1]) \notin KeysIn(ledger)
    /\ ArgsKey(call.args[2]) \in KeysIn(ledger)


(***************************************************************************)
(* Properties of main (SpecMain).                                          *)
(***************************************************************************)
MainDone == call.op = "main" /\ pc = "done"

\* the command-line defects reported as validation errors
ClaimedValidationError(a) ==
    \/ a.build /\ a.no_build
    \/ ValidationError(a) # ""
    \/ a.image_has_tag /\ a.image_version_set

\* C17: every validation error (a missing required argument, an input that
\* is no VCF file, a directory without VCF files, a missing rules file, a
\* directory option naming a file, an unsupported method, an unknown
\* compressed extension, --build with --no-build, a tagged --image with
\* --image-version) makes main return 2 with no side effect: no external
\* command was invoked and no file or directory was created or modified.
C17_ValidationErrorSideEffectFree ==
    (MainDone /\ ClaimedValidationError(call.args)) =>
        /\ rc = 2
        /\ events = <<>>
        /\ fs = initial
        /\ ledger = NoFile
        /\ history = <<>>

\* C27: in decompress mode a compressed input whose name ends in none of
\* .gz, .br, .hdt is a validation error: main returns 2 and no external
\* command (docker check, image check, decompression tool) has been run.
C27_UnknownExtensionRejectedEarly ==
    \A a \in {call.args} :
        (/\ call.op = "main"
         /\ a.mode = "decompress"
         /\ a.compressed_input.kind = "file"
         /\ ~\E suffix \in {".gz", ".br", ".hdt"} :
               EndsWith(a.compressed_input.name, suffix)) =>
            /\ events = <<>>
            /\ pc \in {"main", "done"}
            /\ pc = "done" => rc = 2 /\ fs = initial

C27_Witness ==
    /\ MainDone
    /\ call.args.mode = "decompress"
    /\ call.args.compressed_input.name = "sample_a.zip"
    /\ ~(call.args.build /\ call.args.no_build)
    /\ rc = 2
    /\ events = <<>>

\* the external tools of the stages
ToolKinds == {"tsv", "rdf", "compress", "decompress"}

\* the events that mean a stage of an input did not succeed
StageFailureKinds ==
    ToolKinds \cup {"discover_error", "no_triplet", "metrics_error", "rm"}

\* C18 as stated: the exit code is 0 only if every stage of every input
\* succeeded, 2 for validation and usage errors, and the code c of the
\* external step that exited non-zero otherwise.
C18_ExitCodePassesThrough ==
    MainDone =>
        /\ rc = 0 =>
              \A k \in DOMAIN events :
                  events[k].kind \in StageFailureKinds => events[k].exit = 0
        /\ ClaimedValidationError(call.args) => rc = 2
        /\ \A k \in DOMAIN events :
              (events[k].kind \in ToolKinds /\ events[k].exit # 0) =>
                  rc = events[k].exit

\* C18: the exit code is 0 only if every stage of every input succeeded,
\* 2 for validation and usage errors, and 1 when an external step (TSV,
\* RDF, compression or decompression tool) exited non-zero, whatever its
\* code; that step is then the last thing the run did.
C18_ExitCodeFixedOnStepFailure ==
    MainDone =>
        /\ rc = 0 =>
              \A k \in DOMAIN events :
                  events[k].kind \in StageFailureKinds => events[k].exit = 0
        /\ ClaimedValidationError(call.args) => rc = 2
        /\ \A k \in DOMAIN events :
              (events[k].kind \in ToolKinds /\ events[k].exit # 0) =>
                  rc = 1 /\ k = Len(events)

C18_Witness ==
    /\ MainDone
    /\ rc = 1
    /\ events # <<>>
    /\ events[Len(events)].kind = "decompress"
    /\ events[Len(events)].exit = 7

\* C19: compression `none`, in full mode and in compress mode alike, runs no
\* external compression command and leaves a ledger row for the output with
\* compression_methods "none" and "0" in combined_nq_size_bytes,
\* gzip_size_bytes, brotli_size_bytes and hdt_size_bytes.
C19_NoneLeavesZeroRow ==
    (/\ MainDone
     /\ rc = 0
     /\ call.args.mode \in {"full", "compress"}
     /\ ParseCompressionMethods(call.args.compression) = <<>>) =>
        /\ \A k \in DOMAIN events : events[k].kind # "compress"
        /\ LET output_name == IF call.args.mode = "full"
                              THEN OutputNameOf(1)
                              ELSE Stem(call.args.nq.name)
               row == RowOfKey(ledger, <<cfg.run_id, output_name>>)
           IN  /\ row # <<>>
               /\ row[ColumnOf["compression_methods"]] = "none"
               /\ \A n \in {"combined_nq_size_bytes", "gzip_size_bytes",
                            "brotli_size_bytes", "hdt_size_bytes"} :
                      row[ColumnOf[n]] = "0"


(***************************************************************************)
(* SpecRender: render_rules_for_triplet and the derivation of the output   *)
(* name, on templates, prefixes and input names of every shape.            *)
(***************************************************************************)
\* str.replace(old, new): every occurrence of old, found from the left
\* without overlap, becomes new
\* the positions of text at which old occurs
Occurrences(text, old) ==
    {i \in 1..(Len(text) - Len(old) + 1) :
        SubSeq(text, i, i + Len(old) - 1) = old}

RECURSIVE Replace(_, _, _)
Replace(text, old, new) ==
    LET hits == Occurrences(text, old)
    IN  IF hits = {} THEN text
        ELSE LET i == CHOOSE h \in hits : \A g \in hits : h <= g
             IN  SubSeq(text, 1, i - 1) \o new
                    \o Replace(SubSeq(text, i + Len(old), Len(text)), old, new)

RecordsPlaceholder == "/data/tsv/records.tsv"
HeadersPlaceholder == "/data/tsv/header_lines.tsv"
MetadataPlaceholder == "/data/tsv/file_metadata.tsv"

\* render_rules_for_triplet: the text written to output_rules for the text
\* read from template_rules
render_rules_for_triplet(text, records_name, headers_name, metadata_name) ==
    LET t1 == Replace(text, RecordsPlaceholder, "/data/tsv/" \o records_name)
        t2 == Replace(t1, HeadersPlaceholder, "/data/tsv/" \o headers_name)
    IN  Replace(t2, MetadataPlaceholder, "/data/tsv/" \o metadata_name)

\* output_name = safe_prefix or slugify(out_name)
OutputName(prefix, out_name) ==
    LET safe_prefix == slugify(prefix)
    IN  IF safe_prefix # "" THEN safe_prefix ELSE slugify(out_name)

\* pieces of rules templates: the three placeholders, a path that only
\* starts like one, another path, and text that is no path
TemplatePieces ==
    {RecordsPlaceholder, HeadersPlaceholder, MetadataPlaceholder,
     "/data/tsv/records.tsv.bak", "/data/tsv/other.tsv", "rml:source"}

\* prefixes of triplets, some starting with the file name of a placeholder
RenderPrefixes ==
    {"sample_a", "header_lines.tsv", "file_metadata.tsv", "records.tsv",
     "header_lines.tsv.x"}

\* names of input files before their .vcf or .vcf.gz ending
InputStems ==
    {"sample_a", "sample a", "a  (1)", "??", "", ".", "..", "_x_", "a.b-c"}
VcfEndings == {".vcf", ".vcf.gz"}
OutNames == {"rdf", "my out"}

InitRender ==
    /\ Idle
    /\ \/ \E first \in TemplatePieces, second \in TemplatePieces,
             prefix \in RenderPrefixes :
             call = [op |-> "render", done |-> FALSE,
                     template |-> first \o " ; " \o second,
                     prefix |-> prefix]
       \/ \E stem \in InputStems, ending \in VcfEndings, out_name \in OutNames :
             call = [op |-> "output_name", done |-> FALSE,
                     input |-> stem \o ending, out_name |-> out_name]

\* render_rules_for_triplet on the triplet of call.prefix, twice
RenderCall ==
    /\ call.op = "render"
    /\ ~call.done
    /\ LET triplet == Triplet(call.prefix)
       IN  call' = [op |-> call.op, done |-> TRUE,
                    template |-> call.template, prefix |-> call.prefix,
                    out |-> render_rules_for_triplet(
                                call.template, triplet.records,
                                triplet.headers, triplet.metadata),
                    again |-> render_rules_for_triplet(
                                  call.template, triplet.records,
                                  triplet.headers, triplet.metadata)]
    /\ UNCHANGED <<ledgerVars, runVars>>

\* the output name run_full_mode derives for the input file call.input and
\* the paths it gives the rules file and the RDF output
OutputNameCall ==
    /\ call.op = "output_name"
    /\ ~call.done
    /\ LET prefix == vcf_output_prefix(call.input)
           output_name == OutputName(prefix, call.out_name)
       IN  call' = [op |-> call.op, done |-> TRUE,
                    input |-> call.input, out_name |-> call.out_name,
                    prefix |-> prefix,
                    output_name |-> output_name,
                    rules |-> RulesFileName(slugify(prefix)),
                    nt_path |-> OutRoot \o <<output_name,
                                             output_name \o ".nt">>]
    /\ UNCHANGED <<ledgerVars, runVars>>

NextRender ==
    \/ RenderCall
    \/ OutputNameCall

SpecRender == InitRender /\ [][NextRender]_vars

(***************************************************************************)
(* Properties of the naming functions (SpecNames).                         *)
(***************************************************************************)
CompressedNameDone == call.op = "compressed_name" /\ call.done
DecompressedNameDone == call.op = "default_decompressed_name" /\ call.done

\* C25: for every RDF source <stem>.<ext> with ext nt or nq the compressed
\* output is named <stem>.<ext>.gz by gzip, <stem>.<ext>.br by brotli and
\* <stem>.hdt by hdt.
C25_CompressedNames ==
    CompressedNameDone =>
        call.name =
            (IF call.method = "gzip"
             THEN call.stem \o "." \o call.ext \o ".gz"
             ELSE IF call.method = "brotli"
             THEN call.stem \o "." \o call.ext \o ".br"
             ELSE call.stem \o ".hdt")

\* C25 witness: a source with a dot in its stem, in a directory, compressed
\* by gzip keeps both the stem and the extension.
C25_Witness ==
    /\ CompressedNameDone
    /\ call.dir = "out/sample/" /\ call.stem = "a.b" /\ call.ext = "nq"
    /\ call.method = "gzip"
    /\ call.name = "a.b.nq.gz"

\* C26: the default decompression target strips only the final .gz or .br
\* of an input named *.nq.gz, *.nt.gz, *.nq.br or *.nt.br, and is <stem>.nt,
\* <stem> being the name without its last suffix, for every other accepted
\* input (another *.gz or *.br name, and every *.hdt name).
C26_DefaultDecompressedName ==
    DecompressedNameDone =>
        /\ call.fmt # ""
        /\ call.result =
              (IF call.inner \in {".nq", ".nt"} /\ call.last \in {".gz", ".br"}
               THEN call.stem \o call.inner
               ELSE call.stem \o call.inner \o ".nt")

\* C26 witness: sample.nq.hdt is no double-suffix pattern.
C26_Witness ==
    /\ DecompressedNameDone
    /\ call.stem = "sample" /\ call.inner = ".nq" /\ call.last = ".hdt"
    /\ call.result = "sample.nq.nt"

\* C29: each method writes its output under the output root in a directory
\* named after the method: <out>/gzip/, <out>/brotli/, <out>/hdt/.
C29_OutputUnderMethodDir ==
    CompressedNameDone => call.path = call.method \o "/" \o call.name


(***************************************************************************)
(* Termination and the number of invocations (SpecTerm).                   *)
(***************************************************************************)
\* the number of events of a kind
CountOf(kind) == Len(SelectSeq(events, LAMBDA e : e.kind = kind))

\* the events of a kind about `arg` for input i
EventsAbout(kind, i, arg) ==
    SelectSeq(events, LAMBDA e : e.kind = kind /\ e.input = i /\ e.arg = arg)

\* the intermediate files of input i: its raw RDF files and its triplet
IntermediateFiles(i) ==
    {NtPath(OutputNameOf(i)), NqPath(OutputNameOf(i))}
        \cup TripletFiles(cfg.prefixes[i])

\* a run over n inputs with k selected methods has invoked the TSV stage
\* and the RDF stage at most n times and a compression method at most n*k
\* times, each at most once per input (and method), the fallback removal
\* at most once per intermediate file of an input, and never went back to
\* an earlier input
InvocationsBounded ==
    LET n == Len(cfg.inputs)
        k == Len(Selected)
    IN  /\ CountOf("tsv") <= n
        /\ CountOf("rdf") <= n
        /\ CountOf("compress") <= n * k
        /\ CountOf("rm") <= 5 * n
        /\ \A j \in DOMAIN events :
              /\ events[j].input \in 1..n
              /\ j > 1 => events[j - 1].input <= events[j].input
              /\ events[j].kind = "compress" => events[j].arg \in Range(Selected)
              /\ events[j].kind = "rm" =>
                    events[j].arg \in IntermediateFiles(events[j].input)
        /\ \A i \in 1..n :
              /\ Len(EventsOf("tsv", i)) <= 1
              /\ Len(EventsOf("rdf", i)) <= 1
              /\ \A m \in Range(Selected) :
                    Len(EventsAbout("compress", i, m)) <= 1
              /\ \A f \in IntermediateFiles(i) :
                    Len(EventsAbout("rm", i, f)) <= 1

TwinRc == IF call.done THEN call.rc ELSE rc
TwinCommands == IF call.done THEN call.commands ELSE Commands(events)
TwinLedger == IF call.done THEN call.ledger ELSE ledger

\* stale files without a records file that lacks a sibling
StaleWhole ==
    \A i \in DOMAIN TsvPrefixes :
        RecordsName(TsvPrefixes[i]) \in call.stale =>
            TripletFiles(TsvPrefixes[i]) \subseteq call.stale

\* C31 as stated: stale files of no expected prefix, whole triplets or a
\* records file with a missing sibling, do not influence the run: the twin
\* runs invoke the same external commands, write the same ledger and return
\* the same code.
C31_StaleFilesIgnored ==
    (call.op = "twin" /\ pc = "done") =>
        /\ TwinRc = rc
        /\ TwinCommands = Commands(events)
        /\ TwinLedger = ledger

\* C31: stale files of no expected prefix that leave no records file
\* without its siblings (whole triplets, files that are no records file) do
\* not influence the run: the twin runs invoke the same external commands,
\* write the same ledger and return the same code, the twin never leaving
\* the common path.
C31_WholeStaleTripletsIgnored ==
    (call.op = "twin" /\ StaleWhole) =>
        /\ ~call.done
        /\ pc = "done" =>
              /\ TwinRc = rc
              /\ TwinCommands = Commands(events)
              /\ TwinLedger = ledger

\* C31 witness: a successful run over two inputs whose twin holds a whole
\* stale triplet.
C31_Witness ==
    /\ call.op = "twin"
    /\ call.stale = TripletFiles("stale")
    /\ pc = "done" /\ rc = 0
    /\ Len(cfg.inputs) = 2
    /\ Len(Commands(events)) >= 10


(***************************************************************************)
(* Properties of rendering and of the output name (SpecRender).            *)
(***************************************************************************)
RenderDone == call.op = "render" /\ call.done
OutputNameDone == call.op = "output_name" /\ call.done

\* the placeholder that starts `text`, "" when none does
PlaceholderAt(text) ==
    LET starts(ph) == Len(text) >= Len(ph) /\ SubSeq(text, 1, Len(ph)) = ph
    IN  IF starts(RecordsPlaceholder) THEN RecordsPlaceholder
        ELSE IF starts(HeadersPlaceholder) THEN HeadersPlaceholder
        ELSE IF starts(MetadataPlaceholder) THEN MetadataPlaceholder
        ELSE ""

\* the three placeholders of `text` replaced at once, in one pass from the
\* left, everything else copied
RECURSIVE SubstituteAtOnce(_, _)
SubstituteAtOnce(text, triplet) ==
    LET hits == {i \in 1..Len(text) :
                    PlaceholderAt(SubSeq(text, i, Len(text))) # ""}
    IN  IF hits = {} THEN text
        ELSE LET i == CHOOSE h \in hits : \A g \in hits : h <= g
                 ph == PlaceholderAt(SubSeq(text, i, Len(text)))
                 new == IF ph = RecordsPlaceholder THEN triplet.records
                        ELSE IF ph = HeadersPlaceholder THEN triplet.headers
                        ELSE triplet.metadata
             IN  SubSeq(text, 1, i - 1) \o "/data/tsv/" \o new
                    \o SubstituteAtOnce(
                           SubSeq(text, i + Len(ph), Len(text)), triplet)

\* C37: for every template and every prefix, those starting with
\* header_lines.tsv or file_metadata.tsv included, the rendered text is the
\* template with each occurrence of the three placeholder paths replaced
\* by the triplet's path and nothing else altered (the three substitutions
\* in sequence give what the substitution at once gives), and rendering
\* again gives the same text.
C37_RenderIsSimultaneousSubstitution ==
    RenderDone =>
        /\ call.out = SubstituteAtOnce(call.template, Triplet(call.prefix))
        /\ call.again = call.out

\* os.path.normpath on path components: "." dropped, ".." steps back
RECURSIVE Normalised(_, _)
Normalised(done, rest) ==
    IF rest = <<>> THEN done
    ELSE IF Head(rest) = "." THEN Normalised(done, Tail(rest))
    ELSE IF Head(rest) = ".."
    THEN Normalised(IF done = <<>> THEN done
                    ELSE SubSeq(done, 1, Len(done) - 1), Tail(rest))
    ELSE Normalised(Append(done, Head(rest)), Tail(rest))

\* C38: for every input prefix the output name is a single path component
\* that is safe: not empty, made of letters, digits, ".", "_" and "-"
\* only, neither "." nor "..", so that the RDF output path lies inside the
\* output directory.
C38_OutputNameIsSafeComponent ==
    OutputNameDone =>
        /\ call.output_name # ""
        /\ \A i \in 1..Len(call.output_name) :
              SubSeq(call.output_name, i, i) \in SlugChars
        /\ call.output_name \notin {".", ".."}
        /\ LET where == Normalised(<<>>, call.nt_path)
           IN  /\ Len(where) > Len(OutRoot)
               /\ IsUnder(where, OutRoot)

====
